---- MODULE Spec2Model ----
(***************************************************************************)
(* A model of the CDS-bond basis pipeline: the identifier linker and the   *)
(* format normaliser (merge_cds_bond.merge_red_code_into_bond_treas), the  *)
(* curve fitter and spread evaluator (merge_cds_bond.merge_cds_into_bonds),*)
(* the basis calculator (process_final_product) and the reshaping done by  *)
(* create_ftsfr_datasets.main.                                             *)
(*                                                                         *)
(* Tables are sequences of records (row order and duplicate rows matter to *)
(* pandas).  A missing string cell is NA; a missing number is NaN, the     *)
(* pair <<0, 0>>.  Numbers are exact rationals <<n, d>> with d > 0 in      *)
(* lowest terms, so floating-point rounding is abstracted away.            *)
(***************************************************************************)
EXTENDS Integers, Sequences, FiniteSets, TLC

\* ------------------------------------------------------------- bounds
MaxBonds == 2
MaxQuotes == 3
MaxMappings == 2
MaxTreasuries == 3

\* ------------------------------------------------------------ numbers
NA == "NA"
NaN == <<0, 0>>
\* A missing date (NaT); dates are day numbers from 1.
NaT == 0

Abs(n) == IF n < 0 THEN -n ELSE n

RECURSIVE GCD(_, _)
GCD(a, b) == IF b = 0 THEN a ELSE GCD(b, a % b)

Rat(n, d) ==
    IF d = 0 THEN NaN
    ELSE LET g == GCD(Abs(n), Abs(d))
             s == IF d < 0 THEN -1 ELSE 1
         IN  <<(s * n) \div g, (s * d) \div g>>

Num(n) == <<n, 1>>
IsNaN(r) == r[2] = 0
RAdd(a, b) == IF IsNaN(a) \/ IsNaN(b) THEN NaN
              ELSE Rat(a[1] * b[2] + b[1] * a[2], a[2] * b[2])
RSub(a, b) == IF IsNaN(a) \/ IsNaN(b) THEN NaN
              ELSE Rat(a[1] * b[2] - b[1] * a[2], a[2] * b[2])
RMul(a, b) == IF IsNaN(a) \/ IsNaN(b) THEN NaN
              ELSE Rat(a[1] * b[1], a[2] * b[2])
RDiv(a, b) == IF IsNaN(a) \/ IsNaN(b) \/ b[1] = 0 THEN NaN
              ELSE Rat(a[1] * b[2], a[2] * b[1])
RLess(a, b) == a[1] * b[2] < b[1] * a[2]

\* ------------------------------------------------------------- tables
Range(s) == {s[i] : i \in 1..Len(s)}

SeqsUpTo(S, n) == UNION {[1..k -> S] : k \in 0..n}

RECURSIVE SelectRows(_, _)
SelectRows(s, keep) ==
    IF s = <<>> THEN <<>>
    ELSE IF keep[1] THEN <<s[1]>> \o SelectRows(Tail(s), Tail(keep))
    ELSE SelectRows(Tail(s), Tail(keep))

\* A table whose duplicate rows are left in.
KeepDuplicates(s) == s

\* DataFrame.drop_duplicates(): the first occurrence of each row is kept.
DropDuplicates(s) ==
    SelectRows(s, [i \in 1..Len(s) |-> \A j \in 1..(i - 1) : s[j] # s[i]])

\* --------------------------------------------------------------- state
VARIABLES
    pc,               \* the position of the running function
    bond_red_df,      \* merge_cds_into_bonds: the bond table passed in
    cds_df,           \* merge_cds_into_bonds: the CDS quote table passed in
    filtered_cds_df,  \* the collapsed quotes of the groups kept for fitting
    todo,             \* the (redcode, date) groups the loop has not reached
    cubic_splines,    \* (redcode, date) -> the knots of the fitted curve
    WARN,             \* the flag set by a failed fit
    warnings,         \* the number of warnings emitted by warnings.warn
    par_df,           \* the table returned by merge_cds_into_bonds
    bond_treas_df,    \* merge_red_code_into_bond_treas: the caller's bond table
    red_c_df,         \* merge_red_code_into_bond_treas: the caller's mapping table
    cols,             \* the result of detect_column_format
    bond_local,       \* the function's own bond_treas_df (rebound at line 106)
    red_local,        \* the function's own red_c_df (rebound at lines 108-114)
    merged_df,        \* the table returned by merge_red_code_into_bond_treas
    entry,            \* the script that runs: create_ftsfr_datasets or merge_cds_bond
    df_all,           \* main: the result of process_cb_spread
    agg_df,           \* main: the per-rating table of output_cb_final_products
    non_agg_df,       \* main: the per-bond table of output_cb_final_products
    df_stacked,       \* main: the aggregated long table
    df_stacked2,      \* main: the non-aggregated long table
    printed,          \* main: the duplicate counts printed as warnings
    files,            \* the parquet files written by the run: name -> table
    bond_df,          \* merge_treasuries_into_bonds: the bond table passed in
    treas_df,         \* merge_treasuries_into_bonds: the treasury table passed in
    day_window,       \* merge_treasuries_into_bonds: the day_window argument
    treas_yield_map,  \* the mapping from maturity date to treasury yield
    treas_result,     \* the table returned by merge_treasuries_into_bonds
    remote,           \* pull_open_source_bond: what the two downloads deliver
    data_dir,         \* pull_open_source_bond: the files of DATA_DIR, name -> content
    df_len,           \* pull_open_source_bond: len(df) of the table just read
    task_status,      \* the build: task name -> its state in the run
    existing          \* the build: the target files that exist

cdsVars == <<bond_red_df, cds_df, filtered_cds_df, todo, cubic_splines, WARN,
             warnings, par_df>>
linkVars == <<bond_treas_df, red_c_df, cols, bond_local, red_local, merged_df>>
mainVars == <<entry, df_all, agg_df, non_agg_df, df_stacked, df_stacked2, printed, files>>
\* A missing identifier cell.
MissingId == <<"NaN">>
EmptyTable == [columns |-> {}, rows |-> <<>>]

\* The variables of a function that is not running.
LinkIdle ==
    /\ bond_treas_df = EmptyTable
    /\ red_c_df = <<>>
    /\ cols = [format |-> "none"]
    /\ bond_local = EmptyTable
    /\ red_local = <<>>
    /\ merged_df = <<>>

NoTable == [columns |-> <<>>, rows |-> <<>>]

MainIdle ==
    /\ entry = "none"
    /\ df_all = <<>>
    /\ agg_df = NoTable
    /\ non_agg_df = NoTable
    /\ df_stacked = <<>>
    /\ df_stacked2 = <<>>
    /\ printed = <<>>
    /\ files = [f \in {} |-> <<>>]

CdsIdle ==
    /\ bond_red_df = <<>>
    /\ cds_df = <<>>
    /\ filtered_cds_df = {}
    /\ todo = {}
    /\ cubic_splines = [k \in {} |-> {}]
    /\ WARN = FALSE
    /\ warnings = 0
    /\ par_df = <<>>

treasVars == <<bond_df, treas_df, day_window, treas_yield_map, treas_result>>
pullVars == <<remote, data_dir, df_len>>
doitVars == <<task_status, existing>>

TreasIdle ==
    /\ bond_df = <<>>
    /\ treas_df = <<>>
    /\ day_window = 3
    /\ treas_yield_map = [d \in {} |-> NaN]
    /\ treas_result = <<>>

PullIdle ==
    /\ remote = [d \in {} |-> 0]
    /\ data_dir = [f \in {} |-> 0]
    /\ df_len = 0

DoitIdle ==
    /\ task_status = [t \in {} |-> "pending"]
    /\ existing = {}

otherVars == <<treasVars, pullVars, doitVars>>
OtherIdle == TreasIdle /\ PullIdle /\ DoitIdle

otherThanCds == <<linkVars, mainVars, otherVars>>
otherThanLink == <<cdsVars, mainVars, otherVars>>
vars == <<pc, cdsVars, linkVars, mainVars, otherVars>>

\* ------------------------------------------------ merge_cds_into_bonds
RedCodes == <<"R1", "R2">>
Dates == {1, 2}
RedRank(r) == CHOOSE i \in 1..Len(RedCodes) : RedCodes[i] = r

tenor_to_days(tenor) ==
    CASE tenor = "1Y" -> Num(365)
      [] tenor = "3Y" -> Num(3 * 365)
      [] tenor = "5Y" -> Num(5 * 365)
      [] tenor = "7Y" -> Num(7 * 365)
      [] tenor = "10Y" -> Num(10 * 365)
      [] OTHER -> NaN

\* Lines 156-159: the quotes of the bond table's dates with date, parspread,
\* tenor and redcode present, as the set of their row positions.
CleanRows(bonds, cds) ==
    {i \in 1..Len(cds) :
        /\ cds[i].date \in {b.date : b \in Range(bonds)}
        /\ cds[i].date # NaT
        /\ ~IsNaN(cds[i].parspread)
        /\ cds[i].tenor # NA
        /\ cds[i].redcode # NA}

RECURSIVE Insert(_, _)
Insert(v, s) ==
    IF s = <<>> THEN <<v>>
    ELSE IF RLess(s[1], v) THEN <<s[1]>> \o Insert(v, Tail(s))
    ELSE <<v>> \o s

RECURSIVE SortedValues(_, _)
SortedValues(cds, rows) ==
    IF rows = {} THEN <<>>
    ELSE LET i == CHOOSE i \in rows : TRUE
         IN  Insert(cds[i].parspread, SortedValues(cds, rows \ {i}))

\* The "median" aggregation of a non-empty group of par spreads.
Median(cds, rows) ==
    LET v == SortedValues(cds, rows)
        n == Len(v)
    IN  IF n % 2 = 1 THEN v[(n + 1) \div 2]
        ELSE RDiv(RAdd(v[n \div 2], v[n \div 2 + 1]), Num(2))

\* The key of the collapse: every column except parspread.  tier stands for
\* the columns ticker, tier, country and year.
AvgKey(q) == [date |-> q.date, redcode |-> q.redcode, tenor |-> q.tenor, tier |-> q.tier]

\* Lines 162-164: groupby(all columns but parspread).agg(median).  groupby
\* drops the rows with a missing key cell.  The result has one row per key,
\* so it is kept as a set of rows.
CollapseCds(cds, rows) ==
    LET ok == {i \in rows : cds[i].tier # NA}
    IN  {[date |-> cds[i].date, redcode |-> cds[i].redcode, tenor |-> cds[i].tenor,
          tier |-> cds[i].tier,
          parspread |-> Median(cds, {j \in ok : AvgKey(cds[j]) = AvgKey(cds[i])})]
         : i \in ok}

GroupKey(q) == <<q.redcode, q.date>>
GroupOf(df, key) == {q \in df : GroupKey(q) = key}

\* Lines 166-177: the groups with more than one distinct tenor label.
UniqueTenorCount(c_df_avg, key) == Cardinality({q.tenor : q \in GroupOf(c_df_avg, key)})

FilterCds(c_df_avg) ==
    {q \in c_df_avg : UniqueTenorCount(c_df_avg, GroupKey(q)) > 1}

\* Lines 156-188: filtered_cds_df with its tenor_days column.
PrepareCds(bonds, cds) ==
    {[date |-> q.date, redcode |-> q.redcode, tenor |-> q.tenor, tier |-> q.tier,
      parspread |-> q.parspread, tenor_days |-> tenor_to_days(q.tenor)]
     : q \in FilterCds(CollapseCds(cds, CleanRows(bonds, cds)))}

\* The x and y arrays handed to CubicSpline for one group (lines 196-200).
Knots(group) == {[x |-> q.tenor_days, y |-> q.parspread] : q \in group}

\* CubicSpline(x_sorted, y_sorted) raises unless x is finite and strictly
\* increasing and there are at least 2 points (lines 203-206).
FitFails(group) ==
    \/ \E q \in group : IsNaN(q.tenor_days)
    \/ \E q1, q2 \in group : q1 # q2 /\ q1.tenor_days = q2.tenor_days
    \/ Cardinality(group) < 2

RECURSIVE BasisProduct(_, _, _)
BasisProduct(others, p, x) ==
    IF others = {} THEN Num(1)
    ELSE LET q == CHOOSE q \in others : TRUE
         IN  RMul(RDiv(RSub(x, q.x), RSub(p.x, q.x)), BasisProduct(others \ {q}, p, x))

RECURSIVE Interpolate(_, _, _)
Interpolate(rest, knots, x) ==
    IF rest = {} THEN Num(0)
    ELSE LET p == CHOOSE p \in rest : TRUE
         IN  RAdd(RMul(p.y, BasisProduct(knots \ {p}, p, x)),
                  Interpolate(rest \ {p}, knots, x))

\* A curve drawn through two of the knots only.
SplineCallTwoKnots(knots, x) ==
    LET p == CHOOSE p \in knots : TRUE
        q == CHOOSE q \in knots : q # p
    IN  IF IsNaN(x) THEN NaN ELSE Interpolate({p, q}, {p, q}, x)

\* A curve that gives no value outside the range of its knots.
SplineCallInsideOnly(knots, x) ==
    IF IsNaN(x) \/ (\A p \in knots : RLess(x, p.x)) \/ (\A p \in knots : RLess(p.x, x))
    THEN NaN
    ELSE Interpolate(knots, knots, x)

\* CubicSpline.__call__ (line 225).  With the default not-a-knot boundary a
\* spline of 2, 3 or 4 knots is the one polynomial of degree 1, 2 or 3 through
\* all of them, extended beyond the end knots (extrapolate=True); a missing
\* argument gives a missing value.
SplineCall(knots, x) ==
    IF IsNaN(x) THEN NaN ELSE Interpolate(knots, knots, x)

GroupKeys(df) == {GroupKey(q) : q \in df}

\* groupby(["redcode", "date"]) visits the groups in sorted key order.
KeyLess(k1, k2) ==
    \/ RedRank(k1[1]) < RedRank(k2[1])
    \/ k1[1] = k2[1] /\ k1[2] < k2[2]
FirstKey(keys) == CHOOSE k \in keys : \A k2 \in keys \ {k} : KeyLess(k, k2)

\* Lines 211-213: the bonds of the entity codes left in filtered_cds_df.
red_set(df) == {q.redcode : q \in df}
FilterBonds(bonds, df) ==
    SelectRows(bonds, [i \in 1..Len(bonds) |-> bonds[i].redcode \in red_set(df)])

\* An evaluation that gives the rows without a curve a spread of zero.
add_par_spread_defaulted(df, splines) ==
    [i \in 1..Len(df) |->
        [cusip |-> df[i].cusip, date |-> df[i].date, mat_days |-> df[i].mat_days,
         BOND_YIELD |-> df[i].BOND_YIELD, CS |-> df[i].CS,
         size_ig |-> df[i].size_ig, size_jk |-> df[i].size_jk,
         redcode |-> df[i].redcode,
         par_spread |->
            IF <<df[i].redcode, df[i].date>> \in DOMAIN splines
            THEN SplineCall(splines[<<df[i].redcode, df[i].date>>], df[i].mat_days)
            ELSE Num(0)]]

\* add_par_spread_vectorized (lines 216-231): the curve of the row's key at
\* mat_days; NaN for a row whose key has no curve.
add_par_spread_vectorized(df, splines) ==
    [i \in 1..Len(df) |->
        [cusip |-> df[i].cusip, date |-> df[i].date, mat_days |-> df[i].mat_days,
         BOND_YIELD |-> df[i].BOND_YIELD, CS |-> df[i].CS,
         size_ig |-> df[i].size_ig, size_jk |-> df[i].size_jk,
         redcode |-> df[i].redcode,
         par_spread |->
            IF <<df[i].redcode, df[i].date>> \in DOMAIN splines
            THEN SplineCall(splines[<<df[i].redcode, df[i].date>>], df[i].mat_days)
            ELSE NaN]]

\* Line 234.
DropMissingSpread(df) ==
    SelectRows(df, [i \in 1..Len(df) |-> ~IsNaN(df[i].par_spread)])

\* Lines 237-248: the eight output columns.
OutputColumns(df) ==
    [i \in 1..Len(df) |->
        [cusip |-> df[i].cusip, date |-> df[i].date, mat_days |-> df[i].mat_days,
         BOND_YIELD |-> df[i].BOND_YIELD, CS |-> df[i].CS,
         size_ig |-> df[i].size_ig, size_jk |-> df[i].size_jk,
         par_spread |-> df[i].par_spread]]

\* Lines 234-266: rows without a spread are dropped, the output columns are
\* selected and exact duplicate rows are removed.  safe_convert turns the
\* 0-dimensional arrays returned by the curves into the scalars kept here.
FinishBonds(df) == DropDuplicates(OutputColumns(DropMissingSpread(df)))

\* With no row left in df, valid_rows.apply(..., axis=1) returns an empty
\* DataFrame carrying all of df's columns instead of a Series, and
\* df.loc[mask, "par_spread"] = <that frame> sets a frame of several columns
\* to one column of a frame without rows: pandas raises ValueError (line 224).
EvaluateRaises(df) == Len(df) = 0

\* --------------------------------------- merge_cds_into_bonds, stepwise
\* Lines 156-192: the quotes are cleaned, collapsed and filtered, and the
\* loop over the groups starts with an empty curve mapping.
CdsPrepare ==
    /\ pc = "cds_start"
    /\ filtered_cds_df' = PrepareCds(bond_red_df, cds_df)
    /\ todo' = GroupKeys(PrepareCds(bond_red_df, cds_df))
    /\ cubic_splines' = [k \in {} |-> {}]
    /\ WARN' = FALSE
    /\ pc' = "cds_fit"
    /\ UNCHANGED <<bond_red_df, cds_df, warnings, par_df>>
    /\ UNCHANGED otherThanCds

\* A loop body whose successful fit also resets the flag.
FitStepResetting(fit, key, filtered) ==
    LET group == GroupOf(filtered, key)
    IN  IF FitFails(group) THEN [splines |-> fit.splines, WARN |-> TRUE]
        ELSE [splines |-> [k \in DOMAIN fit.splines \cup {key} |->
                              IF k = key THEN Knots(group) ELSE fit.splines[k]],
              WARN |-> FALSE]

\* The body of the loop (lines 196-206) for the group of one key: the curve
\* is stored under the key, or the flag is set when CubicSpline raises.
FitStep(fit, key, filtered) ==
    LET group == GroupOf(filtered, key)
    IN  IF FitFails(group) THEN [splines |-> fit.splines, WARN |-> TRUE]
        ELSE [splines |-> [k \in DOMAIN fit.splines \cup {key} |->
                              IF k = key THEN Knots(group) ELSE fit.splines[k]],
              WARN |-> fit.WARN]

\* One iteration of the loop of lines 195-206.
FitGroup ==
    /\ pc = "cds_fit"
    /\ todo # {}
    /\ LET key == FirstKey(todo)
           fit == FitStep([splines |-> cubic_splines, WARN |-> WARN], key, filtered_cds_df)
       IN  /\ todo' = todo \ {key}
           /\ cubic_splines' = fit.splines
           /\ WARN' = fit.WARN
    /\ UNCHANGED <<pc, bond_red_df, cds_df, filtered_cds_df, warnings, par_df>>
    /\ UNCHANGED otherThanCds

\* Lines 208-209, reached when the loop has ended.
CdsWarn ==
    /\ pc = "cds_fit"
    /\ todo = {}
    /\ warnings' = IF WARN THEN warnings + 1 ELSE warnings
    /\ pc' = "cds_eval"
    /\ UNCHANGED <<bond_red_df, cds_df, filtered_cds_df, todo, cubic_splines, WARN, par_df>>
    /\ UNCHANGED otherThanCds

\* Lines 211-233: the bonds are filtered and par_df is the filtered table with
\* its par_spread column, unless the assignment of line 224 raises.
CdsEvaluate ==
    /\ pc = "cds_eval"
    /\ LET df == FilterBonds(bond_red_df, filtered_cds_df)
       IN  IF EvaluateRaises(df)
           THEN pc' = "cds_raised" /\ UNCHANGED par_df
           ELSE pc' = "cds_evaluated" /\ par_df' = add_par_spread_vectorized(df, cubic_splines)
    /\ UNCHANGED <<bond_red_df, cds_df, filtered_cds_df, todo, cubic_splines, WARN, warnings>>
    /\ UNCHANGED otherThanCds

\* Lines 234-266: the function returns par_df.
CdsFinish ==
    /\ pc = "cds_evaluated"
    /\ par_df' = FinishBonds(par_df)
    /\ pc' = "cds_returned"
    /\ UNCHANGED <<bond_red_df, cds_df, filtered_cds_df, todo, cubic_splines, WARN, warnings>>
    /\ UNCHANGED otherThanCds

\* The inputs of merge_cds_into_bonds.
Bond(cusip, date, mat_days, redcode) ==
    [cusip |-> cusip, date |-> date, mat_days |-> mat_days, redcode |-> redcode,
     BOND_YIELD |-> Num(5), CS |-> Num(3), size_ig |-> Num(1), size_jk |-> Num(0)]

BondRows ==
    { Bond("001957AM1", 1, Num(1095), "R1"),
      Bond("001957AM2", 1, Num(730), "R1"),
      Bond("001957AM1", 1, Num(1095), "R2"),
      Bond("001957AM1", 2, Num(4015), "R1"),
      Bond("001957AM2", 1, NaN, "R2"),
      Bond("001957AM2", 1, Num(2190), "R1") }

Quote(redcode, date, tenor, parspread, tier) ==
    [redcode |-> redcode, date |-> date, tenor |-> tenor, parspread |-> parspread,
     tier |-> tier]

QuoteRows ==
    << Quote("R1", 1, "1Y", Num(3), "SNRFOR"),
       Quote("R1", 1, "3Y", Num(4), "SNRFOR"),
       Quote("R1", 1, "3Y", Num(7), "SNRFOR"),
       Quote("R1", 1, "3Y", Num(4), "SUBLT2"),
       Quote("R1", 1, "5Y", Num(6), "SNRFOR"),
       Quote("R1", 1, "2Y", Num(5), "SNRFOR"),
       Quote("R1", 1, "5Y", NaN, "SNRFOR"),
       Quote("R1", 1, "10Y", Num(6), NA),
       Quote("R1", 2, "1Y", Num(3), "SNRFOR"),
       Quote("R2", 1, "1Y", Num(3), "SNRFOR"),
       Quote("R2", 1, "3Y", Num(4), "SNRFOR"),
       Quote("R2", 1, "2Y", Num(5), "SNRFOR") >>

\* The quote tables of at most n rows.  Every use of the quote table is a
\* groupby, a set or a median, so its row order never reaches the result and
\* one order per multiset of rows is enumerated.
QuoteTables(n) ==
    UNION {{[i \in 1..k |-> QuoteRows[f[i]]] :
                f \in {g \in [1..k -> 1..Len(QuoteRows)] :
                          \A i \in 1..(k - 1) : g[i] <= g[i + 1]}}
           : k \in 0..n}

InitCds ==
    /\ pc = "cds_start"
    /\ bond_red_df \in SeqsUpTo(BondRows, MaxBonds)
    /\ cds_df \in QuoteTables(MaxQuotes)
    /\ filtered_cds_df = {}
    /\ todo = {}
    /\ cubic_splines = [k \in {} |-> {}]
    /\ WARN = FALSE
    /\ warnings = 0
    /\ par_df = <<>>
    /\ LinkIdle
    /\ MainIdle
    /\ OtherIdle

NextCds == CdsPrepare \/ FitGroup \/ CdsWarn \/ CdsEvaluate \/ CdsFinish

SpecCds == InitCds /\ [][NextCds]_vars

\* --------------------------------- merge_cds_into_bonds, several groups
\* Calls whose quote table holds the quotes of two entities, so that the loop
\* of lines 195-206 runs over more than one group.
FitQuoteRows ==
    << Quote("R1", 1, "1Y", Num(3), "SNRFOR"),
       Quote("R1", 1, "3Y", Num(4), "SNRFOR"),
       Quote("R1", 1, "2Y", Num(5), "SNRFOR"),
       Quote("R2", 1, "1Y", Num(3), "SNRFOR"),
       Quote("R2", 1, "3Y", Num(6), "SNRFOR"),
       Quote("R2", 1, "2Y", Num(5), "SNRFOR") >>

FitQuoteTables(n) ==
    UNION {{[i \in 1..k |-> FitQuoteRows[f[i]]] :
                f \in {g \in [1..k -> 1..Len(FitQuoteRows)] :
                          \A i \in 1..(k - 1) : g[i] <= g[i + 1]}}
           : k \in 0..n}

InitFit ==
    /\ pc = "cds_start"
    /\ bond_red_df \in SeqsUpTo(BondRows, MaxBonds)
    /\ cds_df \in FitQuoteTables(MaxQuotes + 1)
    /\ filtered_cds_df = {}
    /\ todo = {}
    /\ cubic_splines = [k \in {} |-> {}]
    /\ WARN = FALSE
    /\ warnings = 0
    /\ par_df = <<>>
    /\ LinkIdle
    /\ MainIdle
    /\ OtherIdle

SpecFit == InitFit /\ [][NextCds]_vars

\* -------------------------------------- merge_red_code_into_bond_treas
\* Identifiers are sequences of characters, so that a prefix can be taken.
Cusip1 == <<"0", "0", "1", "9", "5", "7", "A", "M", "1">>
Cusip2 == <<"0", "0", "1", "9", "5", "7", "A", "M", "2">>
Cusip3 == <<"1", "2", "3", "4", "5", "6", "X", "Y", "9">>
Cusip4 == <<"0", "0", "1", "9", "5", "7", "B", "B", "2">>

Min(a, b) == IF a < b THEN a ELSE b

\* s[:6]
Prefix6(s) == SubSeq(s, 1, Min(6, Len(s)))

\* The two known column sets, and one that is neither.
OldColumns == {"date", "cusip", "issuer_cusip", "CS", "BOND_YIELD", "tmt", "size_ig", "size_jk"}
NewColumns == {"date", "cusip", "issuer_cusip", "cs", "ytm", "tmat", "spc_rat"}
OtherColumns == {"date", "cusip", "issuer_cusip", "yield", "t_spread", "maturity", "rating"}

\* A detection that takes the yield of the new format from cs and the credit
\* spread from ytm.
detect_column_format_swapped(df) ==
    IF "CS" \in df.columns
    THEN [format |-> "old", cs_col |-> "CS", yield_col |-> "BOND_YIELD", tmt_col |-> "tmt",
          tmt_to_days_factor |-> 30, has_size_ig_jk |-> TRUE, rating_col |-> NA]
    ELSE IF "cs" \in df.columns
    THEN [format |-> "new", cs_col |-> "ytm", yield_col |-> "cs", tmt_col |-> "tmat",
          tmt_to_days_factor |-> 365, has_size_ig_jk |-> FALSE, rating_col |-> "spc_rat"]
    ELSE [format |-> "raise"]

\* detect_column_format (lines 24-59): "raise" stands for the ValueError.
detect_column_format(df) ==
    IF "CS" \in df.columns
    THEN [format |-> "old", cs_col |-> "CS", yield_col |-> "BOND_YIELD", tmt_col |-> "tmt",
          tmt_to_days_factor |-> 30, has_size_ig_jk |-> TRUE, rating_col |-> NA]
    ELSE IF "cs" \in df.columns
    THEN [format |-> "new", cs_col |-> "cs", yield_col |-> "ytm", tmt_col |-> "tmat",
          tmt_to_days_factor |-> 365, has_size_ig_jk |-> FALSE, rating_col |-> "spc_rat"]
    ELSE [format |-> "raise"]

\* One row with the cells size_ig and size_jk set.
WithFlags(row, columns, ig, jk) ==
    [c \in columns \cup {"size_ig", "size_jk"} |->
        IF c = "size_ig" THEN ig ELSE IF c = "size_jk" THEN jk ELSE row[c]]

\* Flags computed by the comparisons alone: a missing rating compares False.
derive_without_missing(df, rating_col) ==
    [columns |-> df.columns \cup {"size_ig", "size_jk"},
     rows |-> [i \in 1..Len(df.rows) |->
        LET r == df.rows[i][rating_col]
            le10 == ~IsNaN(r) /\ ~RLess(Num(10), r)
            gt10 == ~IsNaN(r) /\ RLess(Num(10), r)
        IN  WithFlags(df.rows[i], df.columns,
                      IF le10 THEN Num(1) ELSE Num(0), IF gt10 THEN Num(1) ELSE Num(0))]]

\* derive_size_ig_jk (lines 62-85), which works on a copy of df.
derive_size_ig_jk(df, rating_col) ==
    [columns |-> df.columns \cup {"size_ig", "size_jk"},
     rows |-> [i \in 1..Len(df.rows) |->
        LET r == df.rows[i][rating_col]
            le10 == ~IsNaN(r) /\ ~RLess(Num(10), r)
            gt10 == ~IsNaN(r) /\ RLess(Num(10), r)
        IN  IF IsNaN(r) THEN WithFlags(df.rows[i], df.columns, NaN, NaN)
            ELSE WithFlags(df.rows[i], df.columns,
                           IF le10 THEN Num(1) ELSE Num(0), IF gt10 THEN Num(1) ELSE Num(0))]]

\* Line 108: the two columns, without the rows that miss either.
MappingDropna(red) ==
    SelectRows(red, [i \in 1..Len(red) |-> red[i].obl_cusip # MissingId /\ red[i].redcode # NA])

\* Line 109 on a mapping without rows: apply(..., axis=1) returns an empty
\* DataFrame of two columns, and setting it to the one column issuer_cusip
\* raises ValueError.
MappingRaises(red) == Len(MappingDropna(red)) = 0

\* A mapping whose rows keep their full obligor code.
red_mapping_with_obligor(red) ==
    DropDuplicates([i \in 1..Len(MappingDropna(red)) |->
        [issuer_cusip |-> Prefix6(MappingDropna(red)[i].obl_cusip),
         obl_cusip |-> MappingDropna(red)[i].obl_cusip,
         redcode |-> MappingDropna(red)[i].redcode]])

\* Lines 108-114: the unique (issuer_cusip, redcode) pairs, in row order.
red_mapping(red) ==
    DropDuplicates([i \in 1..Len(MappingDropna(red)) |->
        [issuer_cusip |-> Prefix6(MappingDropna(red)[i].obl_cusip),
         redcode |-> MappingDropna(red)[i].redcode]])

RECURSIVE Flatten(_)
Flatten(ss) == IF ss = <<>> THEN <<>> ELSE ss[1] \o Flatten(Tail(ss))

\* The mapping rows matching one bond row, in mapping order.
Matches(row, map) ==
    SelectRows(map, [j \in 1..Len(map) |-> map[j].issuer_cusip = row["issuer_cusip"]])

\* Lines 117-140: the inner merge on issuer_cusip (left order kept), mat_days,
\* the renamed columns and the nine output columns.
MergeRedCode(df, map, c) ==
    Flatten([i \in 1..Len(df.rows) |->
        LET row == df.rows[i]
            m == Matches(row, map)
        IN  [j \in 1..Len(m) |->
                [date |-> row["date"], cusip |-> row["cusip"],
                 issuer_cusip |-> row["issuer_cusip"],
                 BOND_YIELD |-> row[c.yield_col], CS |-> row[c.cs_col],
                 size_ig |-> row["size_ig"], size_jk |-> row["size_jk"],
                 mat_days |-> RMul(row[c.tmt_col], Num(c.tmt_to_days_factor)),
                 redcode |-> m[j].redcode]]])

\* Line 102.
LinkDetect ==
    /\ pc = "link_start"
    /\ cols' = detect_column_format(bond_treas_df)
    /\ pc' = IF detect_column_format(bond_treas_df).format = "raise"
             THEN "link_raised" ELSE "link_detected"
    /\ UNCHANGED <<bond_treas_df, red_c_df, bond_local, red_local, merged_df>>
    /\ UNCHANGED otherThanLink

\* Lines 105-106: the flags are derived for a table that lacks them.
LinkDerive ==
    /\ pc = "link_detected"
    /\ bond_local' = IF cols.has_size_ig_jk THEN bond_treas_df
                     ELSE derive_size_ig_jk(bond_treas_df, cols.rating_col)
    /\ pc' = "link_flagged"
    /\ UNCHANGED <<bond_treas_df, red_c_df, cols, red_local, merged_df>>
    /\ UNCHANGED otherThanLink

\* Lines 108-114.
LinkMapping ==
    /\ pc = "link_flagged"
    /\ IF MappingRaises(red_c_df)
       THEN pc' = "link_raised" /\ UNCHANGED red_local
       ELSE pc' = "link_mapped" /\ red_local' = red_mapping(red_c_df)
    /\ UNCHANGED <<bond_treas_df, red_c_df, cols, bond_local, merged_df>>
    /\ UNCHANGED otherThanLink

\* Lines 117-140: the function returns merged_df.
LinkMerge ==
    /\ pc = "link_mapped"
    /\ merged_df' = MergeRedCode(bond_local, red_local, cols)
    /\ pc' = "link_returned"
    /\ UNCHANGED <<bond_treas_df, red_c_df, cols, bond_local, red_local>>
    /\ UNCHANGED otherThanLink

\* merge_bond_treasury_redcode.merge_red_code_into_bond_treas (lines 103-116):
\* issuer_cusip is taken from cusip, the mapping is reduced to its unique
\* (issuer_cusip, redcode) pairs and inner-merged; every column is returned.
MergeRedCode2(df, red) ==
    Flatten([i \in 1..Len(df.rows) |->
        LET row == [c \in df.columns \cup {"issuer_cusip"} |->
                       IF c = "issuer_cusip" THEN Prefix6(df.rows[i]["cusip"])
                       ELSE df.rows[i][c]]
            m == Matches(row, red_mapping(red))
        IN  [j \in 1..Len(m) |->
                [c \in df.columns \cup {"issuer_cusip", "redcode"} |->
                    IF c = "redcode" THEN m[j].redcode ELSE row[c]]]])

Link2 ==
    /\ pc = "link2_start"
    /\ merged_df' = MergeRedCode2(bond_treas_df, red_c_df)
    /\ pc' = "link2_returned"
    /\ UNCHANGED <<bond_treas_df, red_c_df, cols, bond_local, red_local>>
    /\ UNCHANGED otherThanLink

\* The bond tables passed to merge_red_code_into_bond_treas.
Ratings == {Num(1), Num(10), Num(11), Num(22), NaN}

NewRow(cusip, issuer, rating) ==
    [c \in NewColumns |->
        CASE c = "date" -> 1
          [] c = "cusip" -> cusip
          [] c = "issuer_cusip" -> issuer
          [] c = "cs" -> Num(3)
          [] c = "ytm" -> Num(5)
          [] c = "tmat" -> Num(2)
          [] c = "spc_rat" -> rating]

OldRow(cusip, issuer, ig, jk) ==
    [c \in OldColumns |->
        CASE c = "date" -> 1
          [] c = "cusip" -> cusip
          [] c = "issuer_cusip" -> issuer
          [] c = "CS" -> Num(3)
          [] c = "BOND_YIELD" -> Num(5)
          [] c = "tmt" -> Num(24)
          [] c = "size_ig" -> ig
          [] c = "size_jk" -> jk]

OtherRow(cusip) ==
    [c \in OtherColumns |->
        CASE c = "date" -> 1
          [] c = "cusip" -> cusip
          [] c = "issuer_cusip" -> Prefix6(cusip)
          [] OTHER -> Num(5)]

NewRows == {NewRow(Cusip1, Prefix6(Cusip1), r) : r \in Ratings}
             \cup {NewRow(Cusip3, Prefix6(Cusip3), Num(11)),
                   NewRow(Cusip3, Prefix6(Cusip1), Num(10))}
OldRows == {OldRow(Cusip1, Prefix6(Cusip1), Num(1), Num(0)),
            OldRow(Cusip3, Prefix6(Cusip3), Num(0), Num(1))}

BondTables ==
    {[columns |-> NewColumns, rows |-> r] : r \in SeqsUpTo(NewRows, MaxBonds)}
    \cup {[columns |-> OldColumns, rows |-> r] : r \in SeqsUpTo(OldRows, MaxBonds)}
    \cup {[columns |-> OtherColumns, rows |-> r] : r \in SeqsUpTo({OtherRow(Cusip1)}, MaxBonds)}

Mapping(obl_cusip, redcode) == [obl_cusip |-> obl_cusip, redcode |-> redcode]

MappingRows ==
    { Mapping(Cusip1, "R1"), Mapping(Cusip4, "R1"), Mapping(Cusip2, "R2"),
      Mapping(Cusip3, "R2"), Mapping(MissingId, "R1"), Mapping(Cusip3, NA) }

InitLink ==
    /\ pc \in {"link_start", "link2_start"}
    /\ bond_treas_df \in BondTables
    /\ red_c_df \in SeqsUpTo(MappingRows, MaxMappings)
    /\ cols = [format |-> "none"]
    /\ bond_local = EmptyTable
    /\ red_local = <<>>
    /\ merged_df = <<>>
    /\ CdsIdle
    /\ MainIdle
    /\ OtherIdle

NextLink == LinkDetect \/ LinkDerive \/ LinkMapping \/ LinkMerge \/ Link2

SpecLink == InitLink /\ [][NextLink]_vars

\* ------------------------------------------- the calls made by the mains
\* The curve mapping left by the whole loop of lines 195-206.
FitAll(filtered) ==
    [key \in {k \in GroupKeys(filtered) : ~FitFails(GroupOf(filtered, k))} |->
        Knots(GroupOf(filtered, key))]

\* merge_cds_into_bonds(bond_red_df, cds_df) as one call.
merge_cds_into_bonds(bonds, cds) ==
    LET filtered == PrepareCds(bonds, cds)
        df == FilterBonds(bonds, filtered)
    IN  IF EvaluateRaises(df) THEN [raised |-> TRUE, table |-> <<>>]
        ELSE [raised |-> FALSE,
              table |-> FinishBonds(add_par_spread_vectorized(df, FitAll(filtered)))]

\* A linker that returns an empty table for a table of unknown format.
merge_red_code_lenient(df, red) ==
    LET c == detect_column_format(df)
    IN  IF c.format = "raise" THEN [raised |-> FALSE, table |-> <<>>]
        ELSE IF MappingRaises(red) THEN [raised |-> TRUE, table |-> <<>>]
        ELSE [raised |-> FALSE,
              table |-> MergeRedCode(IF c.has_size_ig_jk THEN df
                                     ELSE derive_size_ig_jk(df, c.rating_col),
                                     red_mapping(red), c)]

\* merge_cds_bond.merge_red_code_into_bond_treas(bond_treas_df, red_c_df) as
\* one call.
merge_red_code_into_bond_treas(df, red) ==
    LET c == detect_column_format(df)
    IN  IF c.format = "raise" \/ MappingRaises(red) THEN [raised |-> TRUE, table |-> <<>>]
        ELSE [raised |-> FALSE,
              table |-> MergeRedCode(IF c.has_size_ig_jk THEN df
                                     ELSE derive_size_ig_jk(df, c.rating_col),
                                     red_mapping(red), c)]

\* ------------------------------------------------ process_final_product
\* The categorical rating label of the two flags.
c_rating(row) ==
    IF row.size_ig = Num(1) THEN "IG" ELSE IF row.size_jk = Num(1) THEN "HY" ELSE NA

\* A basis calculator that takes the basis as FR - par_spread.
process_cb_spread_swapped(df) ==
    [i \in 1..Len(df) |->
        [cusip |-> df[i].cusip, date |-> df[i].date, mat_days |-> df[i].mat_days,
         BOND_YIELD |-> df[i].BOND_YIELD, CS |-> df[i].CS,
         size_ig |-> df[i].size_ig, size_jk |-> df[i].size_jk,
         par_spread |-> df[i].par_spread,
         FR |-> df[i].CS,
         CB |-> RSub(df[i].CS, df[i].par_spread),
         rfr |-> RMul(RSub(RSub(df[i].BOND_YIELD, df[i].CS),
                           RSub(df[i].CS, df[i].par_spread)), Num(100)),
         c_rating |-> c_rating(df[i])]]

\* process_cb_spread: FR = CS, CB = par_spread - FR,
\* rfr = (BOND_YIELD - CS - CB) * 100, and c_rating from the flags.
process_cb_spread(df) ==
    [i \in 1..Len(df) |->
        [cusip |-> df[i].cusip, date |-> df[i].date, mat_days |-> df[i].mat_days,
         BOND_YIELD |-> df[i].BOND_YIELD, CS |-> df[i].CS,
         size_ig |-> df[i].size_ig, size_jk |-> df[i].size_jk,
         par_spread |-> df[i].par_spread,
         FR |-> df[i].CS,
         CB |-> RSub(df[i].par_spread, df[i].CS),
         rfr |-> RMul(RSub(RSub(df[i].BOND_YIELD, df[i].CS),
                           RSub(df[i].par_spread, df[i].CS)), Num(100)),
         c_rating |-> c_rating(df[i])]]

\* The metric columns the two tables of output_cb_final_products may carry,
\* in column order.
MetricColumns == {<<"rfr">>, <<"CB", "rfr">>}

RECURSIVE SumCells(_, _, _)
SumCells(df, rows, m) ==
    IF rows = {} THEN Num(0)
    ELSE LET i == CHOOSE i \in rows : TRUE
         IN  RAdd(df[i][m], SumCells(df, rows \ {i}, m))

\* The mean of the present cells of column m over the rows; NaN if none.
MeanCell(df, rows, m) ==
    LET present == {i \in rows : ~IsNaN(df[i][m])}
    IN  IF present = {} THEN NaN
        ELSE RDiv(SumCells(df, present, m), Num(Cardinality(present)))

\* The per-bond table: cusip, date and the metric columns, one row per row.
NonAggregated(df, metrics) ==
    [columns |-> <<"cusip", "date">> \o metrics, rows |-> df]

\* The per-rating table: one row per (c_rating, date) with a rating, in order
\* of first appearance, holding the mean of each metric column.
Aggregated(df, metrics) ==
    LET keyed == SelectRows(df, [i \in 1..Len(df) |-> df[i].c_rating # NA])
        first == SelectRows(keyed, [i \in 1..Len(keyed) |->
                    \A j \in 1..(i - 1) :
                       <<keyed[j].c_rating, keyed[j].date>> # <<keyed[i].c_rating, keyed[i].date>>])
    IN  [columns |-> <<"c_rating", "date">> \o metrics,
         rows |-> [i \in 1..Len(first) |->
            [c \in {"c_rating", "date", "rfr", "CB"} |->
                CASE c = "c_rating" -> first[i].c_rating
                  [] c = "date" -> first[i].date
                  [] OTHER -> MeanCell(keyed, {j \in 1..Len(keyed) :
                                  /\ keyed[j].c_rating = first[i].c_rating
                                  /\ keyed[j].date = first[i].date}, c)]]]

\* ------------------------------------------- create_ftsfr_datasets.main
AsStr(label) == IF label = NA THEN "nan" ELSE label

\* set_index([id, "date"]).stack().reset_index() with the renamed columns
\* (lines 48-54 and 62-68): one row per row and metric column, in that order;
\* stack leaves out the missing values.  The variable column is dropped.
RECURSIVE StackRow(_, _, _)
StackRow(row, id, metrics) ==
    IF metrics = <<>> THEN <<>>
    ELSE (IF IsNaN(row[metrics[1]]) THEN <<>>
          ELSE <<[unique_id |-> id, ds |-> row.date, y |-> row[metrics[1]]]>>)
         \o StackRow(row, id, Tail(metrics))

StackAggregated(t) ==
    Flatten([i \in 1..Len(t.rows) |->
        StackRow(t.rows[i], AsStr(t.rows[i].c_rating), SubSeq(t.columns, 3, Len(t.columns)))])

StackNonAggregated(t) ==
    Flatten([i \in 1..Len(t.rows) |->
        StackRow(t.rows[i], t.rows[i].cusip, SubSeq(t.columns, 3, Len(t.columns)))])

\* A dropna that keeps every row.
DropnaKeepAll(rows, missing) == rows

\* DataFrame.dropna() on the long table (lines 56 and 78).
DropnaStacked(rows, missing) ==
    SelectRows(rows, [i \in 1..Len(rows) |->
        rows[i].unique_id # missing /\ rows[i].ds # NaT /\ ~IsNaN(rows[i].y)])

\* A duplicate test that marks the rows repeated by a later row.
duplicates_keep_last(rows) ==
    [i \in 1..Len(rows) |->
        \E j \in (i + 1)..Len(rows) :
           rows[j].unique_id = rows[i].unique_id /\ rows[j].ds = rows[i].ds]

\* Line 71: the rows that repeat the (unique_id, ds) pair of an earlier row.
duplicates(rows) ==
    [i \in 1..Len(rows) |->
        \E j \in 1..(i - 1) : rows[j].unique_id = rows[i].unique_id /\ rows[j].ds = rows[i].ds]

num_duplicates(rows) == Cardinality({i \in 1..Len(rows) : duplicates(rows)[i]})

\* A de-duplication on the whole row instead of the (unique_id, ds) pair.
DropDuplicatePairsWholeRow(rows) == DropDuplicates(rows)

\* Lines 73-75: drop_duplicates(subset=["unique_id", "ds"]) keeps the first row
\* of each pair.
DropDuplicatePairs(rows) ==
    IF num_duplicates(rows) > 0
    THEN SelectRows(rows, [i \in 1..Len(rows) |-> ~duplicates(rows)[i]])
    ELSE rows

AggregatedFile == "ftsfr_cds_bond_basis_aggregated.parquet"
NonAggregatedFile == "ftsfr_cds_bond_basis_non_aggregated.parquet"

Written(name, table) ==
    [f \in DOMAIN files \cup {name} |-> IF f = name THEN table ELSE files[f]]

\* create_ftsfr_datasets.main line 35 and merge_cds_bond.main line 282.
MainLink ==
    /\ pc = "main_start"
    /\ LET r == merge_red_code_into_bond_treas(bond_treas_df, red_c_df)
       IN  IF r.raised THEN pc' = "main_raised" /\ UNCHANGED merged_df
           ELSE pc' = "main_linked" /\ merged_df' = r.table
    /\ UNCHANGED <<bond_treas_df, red_c_df, cols, bond_local, red_local>>
    /\ UNCHANGED <<bond_red_df, cds_df, filtered_cds_df, todo, cubic_splines, WARN, warnings, par_df>>
    /\ UNCHANGED <<mainVars, otherVars>>

\* create_ftsfr_datasets.main line 38 and merge_cds_bond.main line 283.
MainCds ==
    /\ pc = "main_linked"
    /\ LET r == merge_cds_into_bonds(merged_df, cds_df)
       IN  IF r.raised THEN pc' = "main_raised" /\ UNCHANGED par_df
           ELSE pc' = "main_merged" /\ par_df' = r.table
    /\ UNCHANGED <<bond_red_df, cds_df, filtered_cds_df, todo, cubic_splines, WARN, warnings>>
    /\ UNCHANGED <<linkVars, mainVars, otherVars>>

\* merge_cds_bond.main lines 286-287.
MainSave ==
    /\ pc = "main_merged"
    /\ entry = "merge_cds_bond"
    /\ files' = [f \in DOMAIN files \cup {"Red_Data.parquet", "Final_data.parquet"} |->
                    IF f = "Red_Data.parquet" THEN merged_df
                    ELSE IF f = "Final_data.parquet" THEN par_df ELSE files[f]]
    /\ pc' = "main_done"
    /\ UNCHANGED <<entry, df_all, agg_df, non_agg_df, df_stacked, df_stacked2, printed>>
    /\ UNCHANGED <<cdsVars, linkVars, otherVars>>

\* create_ftsfr_datasets.main line 41.
MainProcess ==
    /\ pc = "main_merged"
    /\ entry = "create_ftsfr_datasets"
    /\ df_all' = process_cb_spread(par_df)
    /\ pc' = "main_processed"
    /\ UNCHANGED <<entry, agg_df, non_agg_df, df_stacked, df_stacked2, printed, files>>
    /\ UNCHANGED <<cdsVars, linkVars, otherVars>>

\* create_ftsfr_datasets.main line 44.
MainProducts ==
    /\ pc = "main_processed"
    /\ \E metrics \in MetricColumns :
          /\ agg_df' = Aggregated(df_all, metrics)
          /\ non_agg_df' = NonAggregated(df_all, metrics)
    /\ pc' = "main_products"
    /\ UNCHANGED <<entry, df_all, df_stacked, df_stacked2, printed, files>>
    /\ UNCHANGED <<cdsVars, linkVars, otherVars>>

\* create_ftsfr_datasets.main lines 47-58.
MainAggregated ==
    /\ pc = "main_products"
    /\ df_stacked' = DropnaStacked(StackAggregated(agg_df), NA)
    /\ files' = Written(AggregatedFile, DropnaStacked(StackAggregated(agg_df), NA))
    /\ pc' = "main_aggregated"
    /\ UNCHANGED <<entry, df_all, agg_df, non_agg_df, df_stacked2, printed>>
    /\ UNCHANGED <<cdsVars, linkVars, otherVars>>

\* create_ftsfr_datasets.main lines 61-82.
MainNonAggregated ==
    /\ pc = "main_aggregated"
    /\ LET stacked == StackNonAggregated(non_agg_df)
           out == DropnaStacked(DropDuplicatePairs(stacked), MissingId)
       IN  /\ printed' = IF num_duplicates(stacked) > 0
                         THEN Append(printed, num_duplicates(stacked)) ELSE printed
           /\ df_stacked2' = out
           /\ files' = Written(NonAggregatedFile, out)
    /\ pc' = "main_done"
    /\ UNCHANGED <<entry, df_all, agg_df, non_agg_df, df_stacked>>
    /\ UNCHANGED <<cdsVars, linkVars, otherVars>>

\* create_ftsfr_datasets.main lines 61-79 when a step raises after the
\* aggregated file is on disk (to_parquet at line 79 on an I/O error, for
\* one): nothing catches the exception and nothing removes the file written at
\* line 57.
MainNonAggregatedRaises ==
    /\ pc = "main_aggregated"
    /\ pc' = "main_raised"
    /\ UNCHANGED <<mainVars, cdsVars, linkVars, otherVars>>

\* The files read by the mains (lines 30-32).
MainRow(cusip, rating, ytm) ==
    [c \in NewColumns |->
        CASE c = "date" -> 1
          [] c = "cusip" -> cusip
          [] c = "issuer_cusip" -> IF cusip = MissingId THEN Prefix6(Cusip1) ELSE Prefix6(cusip)
          [] c = "cs" -> Num(3)
          [] c = "ytm" -> ytm
          [] c = "tmat" -> Num(3)
          [] c = "spc_rat" -> rating]

MainBondTables ==
    {[columns |-> NewColumns, rows |-> r] :
        r \in SeqsUpTo({MainRow(Cusip1, Num(10), Num(5)), MainRow(Cusip1, Num(10), Num(6)),
                        MainRow(Cusip1, NaN, Num(5)), MainRow(Cusip2, Num(11), Num(5)),
                        MainRow(Cusip2, Num(10), NaN), MainRow(MissingId, Num(10), Num(5))},
                       MaxBonds)}
    \cup {[columns |-> OldColumns, rows |-> r] :
        r \in SeqsUpTo({OldRow(Cusip1, Prefix6(Cusip1), Num(1), Num(0))}, MaxBonds)}
    \cup {[columns |-> OtherColumns, rows |-> r] :
        r \in SeqsUpTo({OtherRow(Cusip1)}, MaxBonds)}

MainMappingRows == {Mapping(Cusip1, "R1"), Mapping(Cusip4, "R2")}

MainQuoteRows ==
    << Quote("R1", 1, "1Y", Num(3), "SNRFOR"),
       Quote("R1", 1, "3Y", Num(4), "SNRFOR"),
       Quote("R1", 1, "3Y", Num(6), "SNRFOR") >>

MainQuoteTables(n) ==
    UNION {{[i \in 1..k |-> MainQuoteRows[f[i]]] :
                f \in {g \in [1..k -> 1..Len(MainQuoteRows)] :
                          \A i \in 1..(k - 1) : g[i] <= g[i + 1]}}
           : k \in 0..n}

InitMain ==
    /\ pc = "main_start"
    /\ entry \in {"create_ftsfr_datasets", "merge_cds_bond"}
    /\ bond_treas_df \in MainBondTables
    /\ red_c_df \in SeqsUpTo(MainMappingRows, MaxMappings)
    /\ cds_df \in MainQuoteTables(MaxQuotes)
    /\ cols = [format |-> "none"]
    /\ bond_local = EmptyTable
    /\ red_local = <<>>
    /\ merged_df = <<>>
    /\ bond_red_df = <<>>
    /\ filtered_cds_df = {}
    /\ todo = {}
    /\ cubic_splines = [k \in {} |-> {}]
    /\ WARN = FALSE
    /\ warnings = 0
    /\ par_df = <<>>
    /\ df_all = <<>>
    /\ agg_df = NoTable
    /\ non_agg_df = NoTable
    /\ df_stacked = <<>>
    /\ df_stacked2 = <<>>
    /\ printed = <<>>
    /\ files = [f \in {} |-> <<>>]
    /\ OtherIdle

NextMain ==
    MainLink \/ MainCds \/ MainSave \/ MainProcess \/ MainProducts \/ MainAggregated
    \/ MainNonAggregated \/ MainNonAggregatedRaises

SpecMain == InitMain /\ [][NextMain]_vars

\* ------------------------------------------ merge_treasuries_into_bonds
\* A date cell as the caller passes it: a day, written as text or held as a
\* timestamp, or a missing cell.
DateCell(day, form) == [day |-> day, form |-> form]
MissingDate == DateCell(NaT, "missing")

\* pd.to_datetime (lines 65-66): text and timestamps of the same day become the
\* same timestamp; a missing cell becomes NaT.
to_datetime(cell) == IF cell.form = "missing" THEN NaT ELSE cell.day

\* Line 69: groupby("tmatdt")["treas_yld"].first().to_dict().  groupby leaves
\* out the rows without a date, and first() takes the first yield of the group
\* that is not missing (NaN when every yield of the group is missing).
treas_yield_map_of(treas) ==
    LET days == {to_datetime(treas[i].tmatdt) : i \in 1..Len(treas)} \ {NaT}
        valued(d) == {i \in 1..Len(treas) :
                         to_datetime(treas[i].tmatdt) = d /\ ~IsNaN(treas[i].treas_yld)}
    IN  [d \in days |->
            IF valued(d) = {} THEN NaN
            ELSE treas[CHOOSE i \in valued(d) : \A j \in valued(d) : i <= j].treas_yld]

\* A lookup that accepts a treasury date within window days of the maturity.
LookupWithinWindow(map, day, window) ==
    IF \E d \in DOMAIN map : Abs(d - day) <= window /\ day # NaT
    THEN map[CHOOSE d \in DOMAIN map :
                /\ Abs(d - day) <= window
                /\ \A e \in DOMAIN map : Abs(e - day) <= window => Abs(d - day) <= Abs(e - day)]
    ELSE NaN

\* Line 72: Series.map(dict) gives the value of the key equal to the maturity,
\* and NaN for a maturity that is no key; day_window is not read.
Lookup(map, day, window) == IF day \in DOMAIN map THEN map[day] ELSE NaN

TreasOutputColumns ==
    {"cusip", "company_symbol", "date", "maturity", "amount_outstanding", "yield",
     "rating", "price_eom", "t_spread", "treas_yld"}

\* Lines 72-88: the yield is attached, the ten output columns are kept and the
\* rows without a yield are dropped; maturity holds the converted date.
AttachTreasury(bonds, map, window) ==
    LET with == [i \in 1..Len(bonds) |->
                    [c \in TreasOutputColumns |->
                        IF c = "treas_yld" THEN Lookup(map, to_datetime(bonds[i]["maturity"]), window)
                        ELSE IF c = "maturity" THEN to_datetime(bonds[i]["maturity"])
                        ELSE bonds[i][c]]]
    IN  SelectRows(with, [i \in 1..Len(with) |-> ~IsNaN(with[i]["treas_yld"])])

\* The date conversion written into the table itself.
ConvertedInPlace(df, column) ==
    [i \in 1..Len(df) |->
        [df[i] EXCEPT ![column] =
            IF @.form = "missing" THEN @ ELSE DateCell(@.day, "stamp")]]

\* merge_treasuries_into_bonds working on the caller's tables, without the
\* copies of lines 61-62.
TreasBuildMapInPlace ==
    /\ pc = "treas_start"
    /\ bond_df' = ConvertedInPlace(bond_df, "maturity")
    /\ treas_df' = ConvertedInPlace(treas_df, "tmatdt")
    /\ treas_yield_map' = treas_yield_map_of(treas_df)
    /\ pc' = "treas_mapped"
    /\ UNCHANGED <<day_window, treas_result>>
    /\ UNCHANGED <<cdsVars, linkVars, mainVars, pullVars, doitVars>>

\* Lines 61-69.
TreasBuildMap ==
    /\ pc = "treas_start"
    /\ treas_yield_map' = treas_yield_map_of(treas_df)
    /\ pc' = "treas_mapped"
    /\ UNCHANGED <<bond_df, treas_df, day_window, treas_result>>
    /\ UNCHANGED <<cdsVars, linkVars, mainVars, pullVars, doitVars>>

\* Lines 72-88: the function returns.
TreasAttach ==
    /\ pc = "treas_mapped"
    /\ treas_result' = AttachTreasury(bond_df, treas_yield_map, day_window)
    /\ pc' = "treas_returned"
    /\ UNCHANGED <<bond_df, treas_df, day_window, treas_yield_map>>
    /\ UNCHANGED <<cdsVars, linkVars, mainVars, pullVars, doitVars>>

\* The tables passed to merge_treasuries_into_bonds.
TreasBond(cusip, maturity) ==
    [c \in (TreasOutputColumns \ {"treas_yld"}) \cup {"isin"} |->
        CASE c = "cusip" -> cusip
          [] c = "maturity" -> maturity
          [] c = "date" -> 1
          [] c = "company_symbol" -> "T"
          [] c = "isin" -> "US0019571099"
          [] OTHER -> Num(5)]

TreasBondRows ==
    {TreasBond(Cusip1, DateCell(1, "text")), TreasBond(Cusip2, DateCell(1, "stamp")),
     TreasBond(Cusip1, DateCell(2, "text")), TreasBond(Cusip3, DateCell(3, "stamp")),
     TreasBond(Cusip2, MissingDate)}

Treasury(tmatdt, treas_yld) == [tmatdt |-> tmatdt, treas_yld |-> treas_yld, mcaldt |-> 1]

TreasuryRows ==
    {Treasury(DateCell(1, "text"), NaN), Treasury(DateCell(1, "stamp"), Num(7)),
     Treasury(DateCell(1, "text"), Num(8)), Treasury(DateCell(2, "stamp"), Num(9)),
     Treasury(MissingDate, Num(7))}

InitTreas ==
    /\ pc = "treas_start"
    /\ bond_df \in SeqsUpTo(TreasBondRows, MaxBonds)
    /\ treas_df \in SeqsUpTo(TreasuryRows, MaxTreasuries)
    /\ day_window \in {0, 3}
    /\ treas_yield_map = [d \in {} |-> NaN]
    /\ treas_result = <<>>
    /\ PullIdle
    /\ DoitIdle
    /\ CdsIdle
    /\ LinkIdle
    /\ MainIdle

NextTreas == TreasBuildMap \/ TreasAttach

SpecTreas == InitTreas /\ [][NextTreas]_vars

\* -------------------------------------------------- pull_open_source_bond
MIN_N_ROWS_EXPECTED == 500

\* DATA_INFO (lines 23-39): the file names of the two datasets.
TreasuryCsv == "bondret_treasury.csv"
TreasuryParquet == "treasury_bond_returns.parquet"
TreasuryReadme == "treasury_bond_returns_README.pdf"
ZipContents == "main_panel_2025.parquet"
CorporateParquet == "corporate_bond_returns.parquet"
ReadmeContents == "README.txt"
CorporateReadme == "corporate_bond_returns_README.txt"

\* A file of DATA_DIR: the run that wrote it and the rows of its table.
File(origin, rows) == [origin |-> origin, rows |-> rows]

WithFile(dir, name, file) ==
    [f \in DOMAIN dir \cup {name} |-> IF f = name THEN file ELSE dir[f]]

WithoutFile(dir, name) == [f \in DOMAIN dir \ {name} |-> dir[f]]

\* A row check that accepts every table.
RowCheckNever(n) == FALSE

\* Lines 130 and 177: len(df) < MIN_N_ROWS_EXPECTED.
RowCheckFails(n) == n < MIN_N_ROWS_EXPECTED

\* Line 157: download_data writes the CSV; raise_for_status raises on an HTTP
\* error.
PullDownloadCsv ==
    /\ pc = "pull_start"
    /\ IF remote.treasury.ok
       THEN /\ data_dir' = WithFile(data_dir, TreasuryCsv, File("this", remote.treasury.rows))
            /\ pc' = "pull_csv_downloaded"
       ELSE pc' = "pull_raised" /\ UNCHANGED data_dir
    /\ UNCHANGED <<remote, df_len>>
    /\ UNCHANGED <<cdsVars, linkVars, mainVars, treasVars, doitVars>>

\* Line 158: load_data_into_dataframe (lines 124-136) with check_n_rows=True.
PullLoadCsv ==
    /\ pc = "pull_csv_downloaded"
    /\ df_len' = data_dir[TreasuryCsv].rows
    /\ pc' = IF RowCheckFails(data_dir[TreasuryCsv].rows)
             THEN "pull_raised" ELSE "pull_csv_loaded"
    /\ UNCHANGED <<remote, data_dir>>
    /\ UNCHANGED <<cdsVars, linkVars, mainVars, treasVars, doitVars>>

\* Lines 159-160: to_parquet to the final name, then the CSV is removed.
PullSaveCsv ==
    /\ pc = "pull_csv_loaded"
    /\ data_dir' = WithoutFile(WithFile(data_dir, TreasuryParquet, File("this", df_len)),
                               TreasuryCsv)
    /\ pc' = "pull_csv_saved"
    /\ UNCHANGED <<remote, df_len>>
    /\ UNCHANGED <<cdsVars, linkVars, mainVars, treasVars, doitVars>>

\* Lines 163-164: the README of the CSV dataset is downloaded.
PullReadmeCsv ==
    /\ pc = "pull_csv_saved"
    /\ IF remote.readme_ok
       THEN /\ data_dir' = WithFile(data_dir, TreasuryReadme, File("this", 0))
            /\ pc' = "pull_zip_start"
       ELSE pc' = "pull_raised" /\ UNCHANGED data_dir
    /\ UNCHANGED <<remote, df_len>>
    /\ UNCHANGED <<cdsVars, linkVars, mainVars, treasVars, doitVars>>

\* Lines 168-173: download_and_extract_zip_parquet (lines 88-110) raises on an
\* HTTP error or when the parquet is not in the ZIP, and otherwise extracts
\* the parquet and, if present, the README under their names in the ZIP.
PullExtractZip ==
    /\ pc = "pull_zip_start"
    /\ IF remote.corporate.ok /\ remote.corporate.has_parquet
       THEN /\ data_dir' =
                 LET d == WithFile(data_dir, ZipContents, File("this", remote.corporate.rows))
                 IN  IF remote.corporate.has_readme
                     THEN WithFile(d, ReadmeContents, File("this", 0)) ELSE d
            /\ pc' = "pull_zip_extracted"
       ELSE pc' = "pull_raised" /\ UNCHANGED data_dir
    /\ UNCHANGED <<remote, df_len>>
    /\ UNCHANGED <<cdsVars, linkVars, mainVars, treasVars, doitVars>>

\* Lines 176-181: the extracted parquet is read and its rows are counted.
PullValidateZip ==
    /\ pc = "pull_zip_extracted"
    /\ df_len' = data_dir[ZipContents].rows
    /\ pc' = IF RowCheckFails(data_dir[ZipContents].rows)
             THEN "pull_raised" ELSE "pull_zip_validated"
    /\ UNCHANGED <<remote, data_dir>>
    /\ UNCHANGED <<cdsVars, linkVars, mainVars, treasVars, doitVars>>

\* Lines 184-187: Path.rename to the final name.  On POSIX an existing target
\* is replaced; on Windows the rename raises FileExistsError.
PullRenameZip ==
    /\ pc = "pull_zip_validated"
    /\ \E windows \in BOOLEAN :
          IF windows /\ CorporateParquet \in DOMAIN data_dir
          THEN pc' = "pull_raised" /\ UNCHANGED data_dir
          ELSE /\ data_dir' = WithoutFile(WithFile(data_dir, CorporateParquet,
                                                   data_dir[ZipContents]), ZipContents)
               /\ pc' = "pull_zip_renamed"
    /\ UNCHANGED <<remote, df_len>>
    /\ UNCHANGED <<cdsVars, linkVars, mainVars, treasVars, doitVars>>

\* Lines 190-196: the README is renamed when the ZIP had one.
PullRenameReadme ==
    /\ pc = "pull_zip_renamed"
    /\ data_dir' = IF ReadmeContents \in DOMAIN data_dir
                   THEN WithoutFile(WithFile(data_dir, CorporateReadme,
                                             data_dir[ReadmeContents]), ReadmeContents)
                   ELSE data_dir
    /\ pc' = "pull_done"
    /\ UNCHANGED <<remote, df_len>>
    /\ UNCHANGED <<cdsVars, linkVars, mainVars, treasVars, doitVars>>

\* The row counts a download may deliver.
RowCounts == {0, MIN_N_ROWS_EXPECTED - 1, MIN_N_ROWS_EXPECTED, MIN_N_ROWS_EXPECTED + 1}

Remotes ==
    [treasury : [ok : BOOLEAN, rows : RowCounts],
     readme_ok : BOOLEAN,
     corporate : [ok : BOOLEAN, has_parquet : BOOLEAN, has_readme : BOOLEAN,
                  rows : RowCounts]]

\* DATA_DIR before the run: each final parquet may be there from an earlier run.
EarlierDirs ==
    {[f \in S |-> File("earlier", MIN_N_ROWS_EXPECTED)] :
        S \in SUBSET {TreasuryParquet, CorporateParquet}}

InitPull ==
    /\ pc = "pull_start"
    /\ remote \in Remotes
    /\ data_dir \in EarlierDirs
    /\ df_len = 0
    /\ TreasIdle
    /\ DoitIdle
    /\ CdsIdle
    /\ LinkIdle
    /\ MainIdle

NextPull ==
    PullDownloadCsv \/ PullLoadCsv \/ PullSaveCsv \/ PullReadmeCsv \/ PullExtractZip
    \/ PullValidateZip \/ PullRenameZip \/ PullRenameReadme

SpecPull == InitPull /\ [][NextPull]_vars

\* ------------------------------------------------------------- dodo.py
\* The tasks of the build, run by doit: a task is examined once every task of
\* its task_dep has been processed successfully (executed, or found up to
\* date); the tasks depending on a failed task are never examined. Tasks may
\* overlap when the runner is given several processes.
Config == "config"
PullOpenSourceBond == "pull_open_source_bond"
PullMarkitMapping == "pull_markit_mapping"
PullWrdsMarkit == "pull_wrds_markit"
Calc == "calc"
GenerateCharts == "generate_charts"
RunCdsNotebooks == "run_cds_notebooks:summary_cds_bond_basis_ipynb"

PullTasks == {PullOpenSourceBond, PullMarkitMapping, PullWrdsMarkit}
Tasks == {Config, Calc, GenerateCharts, RunCdsNotebooks} \cup PullTasks

\* A build whose tasks declare no task_dep.
task_dep_none(t) == {}

task_dep(t) ==
    CASE t = Config -> {}
      [] t \in PullTasks -> {Config}
      [] t = Calc -> PullTasks
      [] t = GenerateCharts -> {Calc}
      [] t = RunCdsNotebooks -> {Calc}

OpenSourceBondTargets ==
    <<"treasury_bond_returns.parquet", "treasury_bond_returns_README.pdf",
      "corporate_bond_returns.parquet", "corporate_bond_returns_README.txt">>
MarkitMappingTargets == <<"RED_and_ISIN_mapping.parquet">>
WrdsMarkitTargets ==
    <<"markit_cds.parquet", "markit_red_crsp_link.parquet",
      "markit_cds_subsetted_to_crsp.parquet">>
CalcTargets ==
    <<"ftsfr_cds_bond_basis_aggregated.parquet",
      "ftsfr_cds_bond_basis_non_aggregated.parquet">>

targets(t) ==
    CASE t = Config -> {"_data", "_output"}
      [] t = PullOpenSourceBond -> Range(OpenSourceBondTargets)
      [] t = PullMarkitMapping -> Range(MarkitMappingTargets)
      [] t = PullWrdsMarkit -> Range(WrdsMarkitTargets)
      [] t = Calc -> Range(CalcTargets)
      [] t = GenerateCharts -> {"cds_bond_basis_replication.html"}
      [] t = RunCdsNotebooks -> {"summary_cds_bond_basis_ipynb.html"}

\* The uptodate callable of the pull tasks: all(t.exists() for t in targets).
all_targets_exist(t, present) == targets(t) \subseteq present

\* The verdict of the runner on a task it examines. A pull task has no
\* file_dep: it is up to date when its uptodate callable returns True. The
\* other tasks have a file_dep: they are up to date when no file of file_dep
\* changed since their last successful run and their targets exist.
UpToDate(t, present, unchanged) ==
    IF t \in PullTasks
    THEN all_targets_exist(t, present)
    ELSE unchanged /\ targets(t) \subseteq present

\* The files a successful run of the task's action leaves behind. The
\* corporate README is renamed to its target name only when the archive
\* holds one.
Created(t) ==
    IF t = PullOpenSourceBond
    THEN {targets(t), targets(t) \ {OpenSourceBondTargets[4]}}
    ELSE {targets(t)}

\* The files a failed run leaves behind: the scripts write their outputs one
\* after the other, so a failure leaves a prefix of them.
Prefixes(s) == {{s[i] : i \in 1..n} : n \in 0..(Len(s) - 1)}

LeftBehind(t) ==
    CASE t = PullOpenSourceBond -> Prefixes(OpenSourceBondTargets)
      [] t = PullWrdsMarkit -> Prefixes(WrdsMarkitTargets)
      [] t = Calc -> Prefixes(CalcTargets)
      [] OTHER -> {{}}

Completed == {"done", "uptodate"}

otherThanDoit == <<cdsVars, linkVars, mainVars, treasVars, pullVars>>

\* The runner reaches a task whose task_dep are all processed successfully
\* and decides whether its action has to run.
TaskExamine(t) ==
    /\ pc = "doit_running"
    /\ task_status[t] = "pending"
    /\ \A d \in task_dep(t) : task_status[d] \in Completed
    /\ \E unchanged \in BOOLEAN :
          task_status' = [task_status EXCEPT ![t] =
              IF UpToDate(t, existing, unchanged) THEN "uptodate" ELSE "running"]
    /\ UNCHANGED <<pc, existing, otherThanDoit>>

\* The action of the task returns successfully.
TaskSucceed(t) ==
    /\ pc = "doit_running"
    /\ task_status[t] = "running"
    /\ \E made \in Created(t) : existing' = existing \cup made
    /\ task_status' = [task_status EXCEPT ![t] = "done"]
    /\ UNCHANGED <<pc, otherThanDoit>>

\* The action of the task fails.
TaskFail(t) ==
    /\ pc = "doit_running"
    /\ task_status[t] = "running"
    /\ \E left \in LeftBehind(t) : existing' = existing \cup left
    /\ task_status' = [task_status EXCEPT ![t] = "failed"]
    /\ UNCHANGED <<pc, otherThanDoit>>

\* The files earlier runs of the build may have left.
EarlierFiles ==
    {a \cup b \cup c \cup d :
        a \in SUBSET targets(PullOpenSourceBond),
        b \in SUBSET targets(PullMarkitMapping),
        c \in Prefixes(WrdsMarkitTargets) \cup {targets(PullWrdsMarkit)},
        d \in {{}, targets(Config),
               targets(Config) \cup targets(Calc),
               targets(Config) \cup targets(Calc) \cup targets(GenerateCharts)
                   \cup targets(RunCdsNotebooks)}}

InitDoit ==
    /\ pc = "doit_running"
    /\ task_status = [t \in Tasks |-> "pending"]
    /\ existing \in EarlierFiles
    /\ CdsIdle /\ LinkIdle /\ MainIdle /\ TreasIdle /\ PullIdle

NextDoit == \E t \in Tasks : TaskExamine(t) \/ TaskSucceed(t) \/ TaskFail(t)

SpecDoit == InitDoit /\ [][NextDoit]_vars

\* ------------------------------------------------ the core stage functions
\* One call of one of the stage functions: merge_cds_into_bonds, the two
\* merge_red_code_into_bond_treas (with detect_column_format and
\* derive_size_ig_jk) or merge_treasuries_into_bonds.
InitStages == InitCds \/ InitLink \/ InitTreas

NextStages == NextCds \/ NextLink \/ NextTreas

SpecStages == InitStages /\ [][NextStages]_vars

\* ------------------------------------------------------------- claims
BondKey(b) == <<b.redcode, b.date>>

SingleTenorKeys ==
    LET c_df_avg == CollapseCds(cds_df, CleanRows(bond_red_df, cds_df))
    IN  {k \in GroupKeys(c_df_avg) : UniqueTenorCount(c_df_avg, k) = 1}

\* C2: a group with exactly one distinct tenor gets no curve, the bond rows of
\* its key get no spread (so they are absent from the result), and the call
\* returns normally instead of raising.
C2_MinimumTenorExclusion ==
    pc \in {"cds_eval", "cds_evaluated", "cds_returned", "cds_raised"} =>
       \A key \in SingleTenorKeys :
          (\E b \in Range(bond_red_df) : BondKey(b) = key) =>
             /\ key \notin DOMAIN cubic_splines
             /\ pc = "cds_evaluated" =>
                   \A i \in 1..Len(par_df) :
                      BondKey(par_df[i]) = key => IsNaN(par_df[i].par_spread)
             /\ pc # "cds_raised"

\* C3: a row without a curve for its key gets a missing spread, never a
\* default, and every returned row has a spread and is the output of a bond row
\* whose key has a curve in the mapping of this call.
C3_SpreadOnlyFromCurve ==
    /\ pc = "cds_evaluated" =>
          \A i \in 1..Len(par_df) :
             BondKey(par_df[i]) \notin DOMAIN cubic_splines => IsNaN(par_df[i].par_spread)
    /\ pc = "cds_returned" =>
          \A i \in 1..Len(par_df) :
             /\ ~IsNaN(par_df[i].par_spread)
             /\ \E b \in Range(bond_red_df) :
                   /\ BondKey(b) \in DOMAIN cubic_splines
                   /\ par_df[i] =
                        [cusip |-> b.cusip, date |-> b.date, mat_days |-> b.mat_days,
                         BOND_YIELD |-> b.BOND_YIELD, CS |-> b.CS,
                         size_ig |-> b.size_ig, size_jk |-> b.size_jk,
                         par_spread |-> SplineCall(cubic_splines[BondKey(b)], b.mat_days)]

C3_Witness ==
    /\ pc = "cds_returned"
    /\ Len(par_df) = 1
    /\ \E b \in Range(bond_red_df) :
          /\ b.redcode \in red_set(filtered_cds_df)
          /\ BondKey(b) \notin DOMAIN cubic_splines

\* C4: the returned table has no two rows equal in all eight columns.
C4_NoDuplicateRows ==
    pc = "cds_returned" =>
       \A i, j \in 1..Len(par_df) : i # j => par_df[i] # par_df[j]

C4_Witness ==
    /\ pc = "cds_returned"
    /\ Len(bond_red_df) = 2
    /\ bond_red_df[1] = bond_red_df[2]
    /\ Len(par_df) = 1

\* C9: derive_size_ig_jk gives every row size_ig = 1, size_jk = 0 for a rating
\* of at most 10, size_ig = 0, size_jk = 1 for a rating above 10 and two missing
\* flags for a missing rating; no row has both flags 1, the other cells are
\* kept and the table passed in has not gained the flag columns.
C9_RatingFlags ==
    (pc = "link_flagged" /\ cols.format = "new") =>
       /\ Len(bond_local.rows) = Len(bond_treas_df.rows)
       /\ bond_treas_df.columns = NewColumns
       /\ \A i \in 1..Len(bond_local.rows) :
             LET rating == bond_treas_df.rows[i]["spc_rat"]
                 ig == bond_local.rows[i]["size_ig"]
                 jk == bond_local.rows[i]["size_jk"]
             IN  /\ DOMAIN bond_treas_df.rows[i] = NewColumns
                 /\ \A c \in NewColumns : bond_local.rows[i][c] = bond_treas_df.rows[i][c]
                 /\ ~(ig = Num(1) /\ jk = Num(1))
                 /\ IF IsNaN(rating) THEN IsNaN(ig) /\ IsNaN(jk)
                    ELSE IF rating[1] <= 10 * rating[2] THEN ig = Num(1) /\ jk = Num(0)
                    ELSE ig = Num(0) /\ jk = Num(1)

C9_Witness ==
    /\ pc = "link_flagged"
    /\ cols.format = "new"
    /\ Len(bond_local.rows) = 2
    /\ IsNaN(bond_local.rows[1]["size_ig"])
    /\ bond_treas_df.rows[2]["spc_rat"] = Num(10)
    /\ bond_local.rows[2]["size_ig"] = Num(1)

\* key is the first 6 characters of s.
IsFirst6(key, s) ==
    /\ Len(key) = (IF Len(s) < 6 THEN Len(s) ELSE 6)
    /\ \A k \in 1..Len(key) : key[k] = s[k]

\* The entity codes the raw mapping gives to an issuer key.
RedcodesOf(issuer) ==
    {red_c_df[i].redcode : i \in {j \in 1..Len(red_c_df) :
        /\ red_c_df[j].obl_cusip # MissingId
        /\ red_c_df[j].redcode # NA
        /\ IsFirst6(issuer, red_c_df[j].obl_cusip)}}

RECURSIVE CountMatches(_, _)
CountMatches(rows, column) ==
    IF rows = <<>> THEN 0
    ELSE Cardinality(RedcodesOf(IF column = "cusip" THEN SubSeq(rows[1]["cusip"], 1, 6)
                                ELSE rows[1]["issuer_cusip"]))
         + CountMatches(Tail(rows), column)

\* C10: the reduced mapping holds exactly the pairs (first 6 characters of the
\* obligor code, entity code) of the raw rows that miss neither cell, each pair
\* once; so a bond row is returned once per entity code of its issuer key, not
\* once per obligor code.
C10_IssuerKeyMapping ==
    /\ pc \in {"link_mapped", "link_returned"} =>
          /\ \A j \in 1..Len(red_local) :
                \E i \in 1..Len(red_c_df) :
                   /\ red_c_df[i].obl_cusip # MissingId
                   /\ red_c_df[i].redcode # NA
                   /\ DOMAIN red_local[j] = {"issuer_cusip", "redcode"}
                   /\ IsFirst6(red_local[j].issuer_cusip, red_c_df[i].obl_cusip)
                   /\ red_local[j].redcode = red_c_df[i].redcode
          /\ \A i \in 1..Len(red_c_df) :
                (red_c_df[i].obl_cusip # MissingId /\ red_c_df[i].redcode # NA) =>
                   \E j \in 1..Len(red_local) :
                      /\ IsFirst6(red_local[j].issuer_cusip, red_c_df[i].obl_cusip)
                      /\ red_local[j].redcode = red_c_df[i].redcode
          /\ \A j, k \in 1..Len(red_local) : j # k => red_local[j] # red_local[k]
    /\ pc = "link_returned" =>
          Len(merged_df) = CountMatches(bond_treas_df.rows, "issuer_cusip")
    /\ pc = "link2_returned" =>
          Len(merged_df) = CountMatches(bond_treas_df.rows, "cusip")

C10_Witness ==
    /\ pc = "link_returned"
    /\ Len(red_c_df) = 2
    /\ red_c_df[1].obl_cusip # red_c_df[2].obl_cusip
    /\ Len(red_local) = 1
    /\ Len(bond_treas_df.rows) = 1
    /\ Len(merged_df) = 1


\* C5: every row of the table returned by process_cb_spread has FR equal to
\* CS, CB equal to par_spread minus FR and rfr equal to
\* (BOND_YIELD - CS - CB) * 100, and carries the columns FR, CB, rfr and
\* c_rating; the table has one row per row of its input.
C5_BasisArithmetic ==
    pc \in {"main_processed", "main_products", "main_aggregated", "main_done"}
        /\ entry = "create_ftsfr_datasets"
    => /\ Len(df_all) = Len(par_df)
       /\ \A i \in 1..Len(df_all) :
            /\ {"FR", "CB", "rfr", "c_rating"} \subseteq DOMAIN df_all[i]
            /\ df_all[i].CS = par_df[i].CS
            /\ df_all[i].par_spread = par_df[i].par_spread
            /\ df_all[i].BOND_YIELD = par_df[i].BOND_YIELD
            /\ df_all[i].FR = df_all[i].CS
            /\ df_all[i].CB = RSub(df_all[i].par_spread, df_all[i].FR)
            /\ df_all[i].rfr =
                 RMul(RSub(RSub(df_all[i].BOND_YIELD, df_all[i].CS), df_all[i].CB), Num(100))

C5_Witness ==
    /\ pc = "main_processed"
    /\ \E i \in 1..Len(df_all) :
          /\ ~IsNaN(df_all[i].rfr)
          /\ df_all[i].CB # Num(0)

\* C6: the non-aggregated file written by create_ftsfr_datasets.main has no
\* two rows with the same (unique_id, ds) pair.
C6_NoDuplicatePairs ==
    NonAggregatedFile \in DOMAIN files
    => LET out == files[NonAggregatedFile]
       IN  \A i, j \in 1..Len(out) :
              (out[i].unique_id = out[j].unique_id /\ out[i].ds = out[j].ds) => i = j

C6_Witness ==
    /\ pc = "main_done"
    /\ NonAggregatedFile \in DOMAIN files
    /\ Len(files[NonAggregatedFile]) >= 1
    /\ Len(non_agg_df.columns) = 3
    /\ printed # <<>>

\* C7: the aggregated file written by create_ftsfr_datasets.main has exactly
\* the columns unique_id, ds and y and at most one row per (unique_id, ds)
\* pair, whatever metric columns the per-rating table carries.
C7_AggregatedOneRowPerPair ==
    AggregatedFile \in DOMAIN files
    => LET out == files[AggregatedFile]
       IN  /\ \A i \in 1..Len(out) : DOMAIN out[i] = {"unique_id", "ds", "y"}
           /\ \A i, j \in 1..Len(out) :
                 (out[i].unique_id = out[j].unique_id /\ out[i].ds = out[j].ds) => i = j

\* C8: a bond table with neither a CS nor a cs column makes the run fail in
\* merge_red_code_into_bond_treas, and no file is ever written by the run.
C8_SchemaErrorAborts ==
    detect_column_format(bond_treas_df).format = "raise"
    => /\ pc \in {"main_start", "main_raised"}
       /\ merged_df = <<>>
       /\ DOMAIN files = {}

C8_Witness ==
    /\ pc = "main_raised"
    /\ detect_column_format(bond_treas_df).format = "raise"
    /\ Len(bond_treas_df.rows) >= 1
    /\ Len(red_c_df) >= 1
    /\ DOMAIN files = {}

\* C11: a bond row whose issuer key has no pair in the deduplicated mapping is
\* absent from the linker output and no error is raised; every output row
\* carries an entity code that the mapping gives to its issuer key.
C11_InnerJoinSilent ==
    /\ pc = "link_raised" => cols.format = "raise"
    /\ pc \in {"link_returned", "link2_returned"} =>
          /\ \A k \in 1..Len(merged_df) :
                merged_df[k]["redcode"] \in RedcodesOf(merged_df[k]["issuer_cusip"])
          /\ \A i \in 1..Len(bond_treas_df.rows) :
                LET key == IF pc = "link_returned" THEN bond_treas_df.rows[i]["issuer_cusip"]
                           ELSE Prefix6(bond_treas_df.rows[i]["cusip"])
                IN  RedcodesOf(key) = {} =>
                       \A k \in 1..Len(merged_df) :
                          ~(/\ merged_df[k]["cusip"] = bond_treas_df.rows[i]["cusip"]
                            /\ merged_df[k]["issuer_cusip"] = key)

\* The treasury rows whose maturity date is the day of bond row i.
SameDateRows(i) ==
    {j \in 1..Len(treas_df) :
        /\ bond_df[i]["maturity"].form # "missing"
        /\ treas_df[j].tmatdt.form # "missing"
        /\ treas_df[j].tmatdt.day = bond_df[i]["maturity"].day}

CusipsOf(rows) == [i \in 1..Len(rows) |-> <<rows[i]["cusip"], rows[i]["maturity"]>>]

BondsWhere(keep) ==
    SelectRows([i \in 1..Len(bond_df) |-> <<bond_df[i]["cusip"], bond_df[i]["maturity"].day>>],
               keep)

FirstSameDateRow(i) == CHOOSE j \in SameDateRows(i) : \A k \in SameDateRows(i) : j <= k

\* C13: the treasury yield attached to a bond is the yield of the first
\* treasury row, in input order, with the bond's maturity date; when that
\* first row's yield is missing the bond is dropped and not given the yield of
\* a later row.
C13_FirstOccurrenceWins ==
    pc = "treas_returned" =>
       [k \in 1..Len(treas_result) |->
           <<treas_result[k]["cusip"], treas_result[k]["maturity"], treas_result[k]["treas_yld"]>>]
       = SelectRows(
           [i \in 1..Len(bond_df) |->
               <<bond_df[i]["cusip"], bond_df[i]["maturity"].day,
                 IF SameDateRows(i) = {} THEN NaN
                 ELSE treas_df[FirstSameDateRow(i)].treas_yld>>],
           [i \in 1..Len(bond_df) |->
               /\ SameDateRows(i) # {}
               /\ ~IsNaN(treas_df[FirstSameDateRow(i)].treas_yld)])

\* The flags the rating rule gives: (1, 0) up to 10, (0, 1) above, missing
\* for a missing rating.
RuleIg(r) == IF IsNaN(r) THEN NaN ELSE IF RLess(Num(10), r) THEN Num(0) ELSE Num(1)
RuleJk(r) == IF IsNaN(r) THEN NaN ELSE IF RLess(Num(10), r) THEN Num(1) ELSE Num(0)

\* The old-format table carrying the values of a new-format table.
OldEquivalent(t) ==
    [columns |-> OldColumns,
     rows |-> [i \in 1..Len(t.rows) |->
        [c \in OldColumns |->
            CASE c = "CS" -> t.rows[i]["cs"]
              [] c = "BOND_YIELD" -> t.rows[i]["ytm"]
              [] c = "tmt" -> RMul(t.rows[i]["tmat"], Num(12))
              [] c = "size_ig" -> RuleIg(t.rows[i]["spc_rat"])
              [] c = "size_jk" -> RuleJk(t.rows[i]["spc_rat"])
              [] OTHER -> t.rows[i][c]]]]

CanonicalColumns ==
    {"date", "cusip", "issuer_cusip", "BOND_YIELD", "CS", "size_ig", "size_jk",
     "mat_days", "redcode"}

ExceptMatDays(rows) ==
    [k \in 1..Len(rows) |-> [c \in CanonicalColumns \ {"mat_days"} |-> rows[k][c]]]

\* C14: merge_red_code_into_bond_treas returns the same nine canonical columns
\* for an old-format and a new-format table; BOND_YIELD and CS hold the source
\* yield and credit spread, size_ig and size_jk the flags of the rating rule,
\* and a new-format table gives, outside mat_days, the rows of the old-format
\* table carrying the same values.
C14_FormatNormalisation ==
    pc = "link_returned" =>
       /\ \A k \in 1..Len(merged_df) : DOMAIN merged_df[k] = CanonicalColumns
       /\ \A k \in 1..Len(merged_df) :
             \E i \in 1..Len(bond_treas_df.rows) :
                LET src == bond_treas_df.rows[i]
                IN  /\ merged_df[k]["cusip"] = src["cusip"]
                    /\ merged_df[k]["date"] = src["date"]
                    /\ IF "CS" \in bond_treas_df.columns
                       THEN /\ merged_df[k]["BOND_YIELD"] = src["BOND_YIELD"]
                            /\ merged_df[k]["CS"] = src["CS"]
                            /\ merged_df[k]["size_ig"] = src["size_ig"]
                            /\ merged_df[k]["size_jk"] = src["size_jk"]
                       ELSE /\ merged_df[k]["BOND_YIELD"] = src["ytm"]
                            /\ merged_df[k]["CS"] = src["cs"]
                            /\ merged_df[k]["size_ig"] = RuleIg(src["spc_rat"])
                            /\ merged_df[k]["size_jk"] = RuleJk(src["spc_rat"])
       /\ "cs" \in bond_treas_df.columns =>
             ExceptMatDays(merged_df) =
                ExceptMatDays(merge_red_code_into_bond_treas(
                                 OldEquivalent(bond_treas_df), red_c_df).table)

C14_Witness ==
    /\ pc = "link_returned"
    /\ cols.format = "new"
    /\ Len(merged_df) = 2
    /\ IsNaN(merged_df[1]["size_ig"])
    /\ merged_df[2]["size_jk"] = Num(1)
    /\ merged_df[2]["BOND_YIELD"] # merged_df[2]["CS"]

\* The bond rows with a fitted curve and a maturity outside its knots.
Below(b) == \A p \in cubic_splines[BondKey(b)] : RLess(b.mat_days, p.x)
Above(b) == \A p \in cubic_splines[BondKey(b)] : RLess(p.x, b.mat_days)

Extrapolated ==
    {i \in 1..Len(bond_red_df) :
        /\ BondKey(bond_red_df[i]) \in DOMAIN cubic_splines
        /\ ~IsNaN(bond_red_df[i].mat_days)
        /\ (Below(bond_red_df[i]) \/ Above(bond_red_df[i]))}

\* The straight line through two knots, taken at x.
LineThrough(knots, x) ==
    LET p == CHOOSE p \in knots : \A q \in knots : ~RLess(q.x, p.x)
        q == CHOOSE q \in knots : q # p
    IN  RAdd(p.y, RDiv(RMul(RSub(x, p.x), RSub(q.y, p.y)), RSub(q.x, p.x)))

\* C15: a bond row with a fitted curve and a maturity below the smallest or
\* above the largest quoted day-count is in the output of merge_cds_into_bonds
\* with a par_spread that is not missing (the extension of the curve); the
\* call does not raise.
C15_ExtrapolationSafe ==
    /\ pc = "cds_raised" => Extrapolated = {}
    /\ pc = "cds_returned" =>
          \A i \in Extrapolated :
             \E k \in 1..Len(par_df) :
                /\ par_df[k].cusip = bond_red_df[i].cusip
                /\ par_df[k].date = bond_red_df[i].date
                /\ par_df[k].mat_days = bond_red_df[i].mat_days
                /\ ~IsNaN(par_df[k].par_spread)
                /\ Cardinality(cubic_splines[BondKey(bond_red_df[i])]) = 2 =>
                      par_df[k].par_spread =
                         LineThrough(cubic_splines[BondKey(bond_red_df[i])],
                                     bond_red_df[i].mat_days)

C15_Witness ==
    /\ pc = "cds_returned"
    /\ \E i \in Extrapolated : Below(bond_red_df[i])
    /\ \E i \in Extrapolated : Above(bond_red_df[i])
    /\ Len(par_df) = 2

\* The raw quotes that pass the cleaning step and share entity, date and tenor
\* with q.
RawQuotesOf(q) ==
    {i \in CleanRows(bond_red_df, cds_df) :
        /\ cds_df[i].redcode = q.redcode
        /\ cds_df[i].date = q.date
        /\ cds_df[i].tenor = q.tenor}

\* C16: after the collapse there is at most one quote per (redcode, date,
\* tenor), its par spread is the median of all raw quotes of that (redcode,
\* date, tenor) whatever their other columns, and so the points of one
\* (redcode, date) group have pairwise distinct day-counts.
C16_MedianCollapse ==
    pc \in {"cds_fit", "cds_eval", "cds_raised", "cds_evaluated", "cds_returned"} =>
       /\ \A q1, q2 \in filtered_cds_df :
             (q1.redcode = q2.redcode /\ q1.date = q2.date /\ q1.tenor = q2.tenor)
                => q1 = q2
       /\ \A q \in filtered_cds_df : q.parspread = Median(cds_df, RawQuotesOf(q))
       /\ \A q1, q2 \in filtered_cds_df :
             (GroupKey(q1) = GroupKey(q2) /\ q1 # q2) => q1.tenor_days # q2.tenor_days

\* C17: a dataset of fewer than MIN_N_ROWS_EXPECTED rows makes the acquisition
\* step fail, and the final parquet of that dataset is neither written nor
\* replaced by the run: a final parquet written by the run always holds a
\* table that passed the row check.
C17_MinimumRows ==
    /\ \A f \in {TreasuryParquet, CorporateParquet} \cap DOMAIN data_dir :
          data_dir[f].origin = "this" => data_dir[f].rows >= MIN_N_ROWS_EXPECTED
    /\ remote.treasury.rows < MIN_N_ROWS_EXPECTED =>
          /\ pc \in {"pull_start", "pull_csv_downloaded", "pull_raised"}
          /\ TreasuryParquet \in DOMAIN data_dir => data_dir[TreasuryParquet].origin = "earlier"
    /\ remote.corporate.rows < MIN_N_ROWS_EXPECTED =>
          /\ pc \notin {"pull_zip_validated", "pull_zip_renamed", "pull_done"}
          /\ CorporateParquet \in DOMAIN data_dir => data_dir[CorporateParquet].origin = "earlier"

C17_Witness ==
    /\ pc = "pull_raised"
    /\ remote.corporate.rows = MIN_N_ROWS_EXPECTED - 1
    /\ df_len = MIN_N_ROWS_EXPECTED - 1
    /\ ZipContents \in DOMAIN data_dir
    /\ CorporateParquet \in DOMAIN data_dir
    /\ data_dir[CorporateParquet].origin = "earlier"
    /\ data_dir[TreasuryParquet].origin = "this"

\* The (redcode, date) groups handed to the fit, and those whose fit fails.
FitKeys == GroupKeys(filtered_cds_df)
FailingKeys == {k \in FitKeys : FitFails(GroupOf(filtered_cds_df, k))}

\* C18: when the fit fails for some groups the call does not raise; a failing
\* group has no curve and gives no output row, every other group has its
\* curve, and the call emits exactly one warning if some fit failed and none
\* otherwise.
C18_FitFailureHandling ==
    pc \in {"cds_eval", "cds_raised", "cds_evaluated", "cds_returned"} =>
       /\ DOMAIN cubic_splines = FitKeys \ FailingKeys
       /\ \A k \in DOMAIN cubic_splines :
             cubic_splines[k] = Knots(GroupOf(filtered_cds_df, k))
       /\ warnings = IF FailingKeys # {} THEN 1 ELSE 0
       /\ FailingKeys # {} => pc # "cds_raised"
       /\ pc = "cds_returned" =>
             \A k \in 1..Len(par_df) :
                \E i \in 1..Len(bond_red_df) :
                   /\ BondKey(bond_red_df[i]) \in FitKeys \ FailingKeys
                   /\ bond_red_df[i].cusip = par_df[k].cusip
                   /\ bond_red_df[i].date = par_df[k].date
                   /\ bond_red_df[i].mat_days = par_df[k].mat_days

\* C19: no row of the aggregated or of the non-aggregated file written by
\* create_ftsfr_datasets.main has a missing y, unique_id or ds.
C19_NoMissingValues ==
    /\ AggregatedFile \in DOMAIN files =>
          \A k \in 1..Len(files[AggregatedFile]) :
             /\ ~IsNaN(files[AggregatedFile][k].y)
             /\ files[AggregatedFile][k].ds # NaT
             /\ files[AggregatedFile][k].unique_id \notin {NA, "nan"}
    /\ NonAggregatedFile \in DOMAIN files =>
          \A k \in 1..Len(files[NonAggregatedFile]) :
             /\ ~IsNaN(files[NonAggregatedFile][k].y)
             /\ files[NonAggregatedFile][k].ds # NaT
             /\ files[NonAggregatedFile][k].unique_id # MissingId

C19_Witness ==
    /\ pc = "main_done"
    /\ entry = "create_ftsfr_datasets"
    /\ Len(df_all) = 2
    /\ \E i \in 1..2 : df_all[i].cusip = MissingId \/ IsNaN(df_all[i].rfr)
    /\ Len(files[NonAggregatedFile]) = 1
    /\ Len(files[AggregatedFile]) >= 1


\* C20: Task ordering. In every step of a run of the build: calc leaves the
\* pending state only when the three pull tasks are completed (executed or up
\* to date); a pull task leaves it only when config is completed;
\* generate_charts and the CDS notebook task leave it only when calc is
\* completed; and a pull task that leaves it is skipped as up to date exactly
\* when all of its target files exist at that moment.
Examined(t) == task_status[t] = "pending" /\ task_status'[t] # "pending"

C20_Step ==
    /\ Examined(Calc) => \A p \in PullTasks : task_status[p] \in Completed
    /\ \A p \in PullTasks : Examined(p) => task_status[Config] \in Completed
    /\ Examined(GenerateCharts) => task_status[Calc] \in Completed
    /\ Examined(RunCdsNotebooks) => task_status[Calc] \in Completed
    /\ \A p \in PullTasks :
          Examined(p) => (task_status'[p] = "uptodate" <=> targets(p) \subseteq existing)

C20_TaskOrdering == [][pc = "doit_running" => C20_Step]_vars

C20_Witness ==
    /\ pc = "doit_running"
    /\ task_status[Calc] = "done"
    /\ task_status[PullOpenSourceBond] = "uptodate"
    /\ task_status[PullWrdsMarkit] = "done"
    /\ task_status[GenerateCharts] = "done"
    /\ task_status[RunCdsNotebooks] \in Completed


\* The call as it would go with the curves built from every quote date: the
\* date test of line 157 passes for every quote when the dates of the quote
\* table itself are taken as date_set.
AllQuoteDates == [i \in 1..Len(cds_df) |-> [date |-> cds_df[i].date]]

WithoutDateFilter ==
    LET filtered == PrepareCds(AllQuoteDates, cds_df)
        df == FilterBonds(bond_red_df, filtered)
    IN  IF EvaluateRaises(df) THEN [raised |-> TRUE, table |-> <<>>]
        ELSE [raised |-> FALSE,
              table |-> FinishBonds(add_par_spread_vectorized(df, FitAll(filtered)))]

\* C21: the call ends as it would with the curves built from the unfiltered
\* quote table: the same rows with the same par_spread values.
C21_DateFilterNeutral ==
    pc \in {"cds_returned", "cds_raised"} =>
       WithoutDateFilter =
          [raised |-> pc = "cds_raised",
           table |-> IF pc = "cds_raised" THEN <<>> ELSE par_df]


\* The quotes after the cleaning and the collapse (lines 156-164).
CollapsedQuotes == CollapseCds(cds_df, CleanRows(bond_red_df, cds_df))

FourPresent(q) ==
    q.date # NaT /\ ~IsNaN(q.parspread) /\ q.tenor # NA /\ q.redcode # NA

\* Quote i is one of the quotes behind the median of its (redcode, date, tenor).
Contributes(i) ==
    \E q \in CollapsedQuotes :
       /\ q.redcode = cds_df[i].redcode
       /\ q.date = cds_df[i].date
       /\ q.tenor = cds_df[i].tenor
       /\ \E rows \in SUBSET {j \in 1..Len(cds_df) :
                                 /\ FourPresent(cds_df[j])
                                 /\ cds_df[j].redcode = q.redcode
                                 /\ cds_df[j].date = q.date
                                 /\ cds_df[j].tenor = q.tenor} :
             i \in rows /\ q.parspread = Median(cds_df, rows)

\* C22: a quote of one of the bond table's dates is dropped by the cleaning and
\* the collapse exactly when its date, par spread, tenor or entity code is
\* missing; with these four present it contributes to the median of its
\* (redcode, date, tenor), also when another of its columns is missing.
C22_QuoteCleaning ==
    pc # "cds_start" =>
       \A i \in 1..Len(cds_df) :
          cds_df[i].date \in {b.date : b \in Range(bond_red_df)} =>
             (Contributes(i) <=> FourPresent(cds_df[i]))


\* The distinct day-counts of the enumerated tenors among the collapsed quotes
\* of one (redcode, date) group.
TenorDays(key) ==
    {tenor_to_days(q.tenor) : q \in GroupOf(CollapsedQuotes, key)} \ {NaN}

\* C23: when the fitting loop has ended, every (redcode, date) group with at
\* least 2 distinct tenor-day values has a curve in the mapping, and every
\* group retained for fitting has at least 2 distinct tenor-day values (day-
\* counts of the enumerated tenors, not raw tenor labels).
C23_CurveExistence ==
    pc \in {"cds_eval", "cds_raised", "cds_evaluated", "cds_returned"} =>
       /\ \A key \in GroupKeys(CollapsedQuotes) :
             Cardinality(TenorDays(key)) >= 2 => key \in DOMAIN cubic_splines
       /\ \A key \in GroupKeys(filtered_cds_df) : Cardinality(TenorDays(key)) >= 2


\* C24: a run of create_ftsfr_datasets.main that has failed has written
\* neither output file, and a run that has ended has written both output
\* files or neither.
C24_NoPartialResults ==
    (entry = "create_ftsfr_datasets" /\ pc \in {"main_done", "main_raised"}) =>
       /\ pc = "main_raised" =>
             DOMAIN files \cap {AggregatedFile, NonAggregatedFile} = {}
       /\ AggregatedFile \in DOMAIN files <=> NonAggregatedFile \in DOMAIN files


\* The long per-bond table before the de-duplication (lines 62-68), and the
\* positions of its rows whose (unique_id, ds) pair no earlier row has.
LongPerBond == StackNonAggregated(non_agg_df)

FirstOfPair ==
    {i \in 1..Len(LongPerBond) :
        \A j \in 1..(i - 1) :
           ~(/\ LongPerBond[j].unique_id = LongPerBond[i].unique_id
             /\ LongPerBond[j].ds = LongPerBond[i].ds)}

\* C25: on the non-aggregated path a duplicate warning is printed exactly when
\* some (unique_id, ds) pair occurs more than once; its count is the number of
\* rows the de-duplication removes; and the row kept for a pair is its first
\* occurrence in row order.
C25_DuplicateWarning ==
    (entry = "create_ftsfr_datasets" /\ pc = "main_done") =>
       /\ printed # <<>> <=>
             \E i, j \in 1..Len(LongPerBond) :
                /\ i # j
                /\ LongPerBond[i].unique_id = LongPerBond[j].unique_id
                /\ LongPerBond[i].ds = LongPerBond[j].ds
       /\ printed # <<>> =>
             /\ Len(printed) = 1
             /\ printed[1] = Len(LongPerBond) - Cardinality(FirstOfPair)
       /\ df_stacked2 =
             DropnaStacked(SelectRows(LongPerBond,
                              [i \in 1..Len(LongPerBond) |-> i \in FirstOfPair]),
                           MissingId)

C25_Witness ==
    /\ entry = "create_ftsfr_datasets"
    /\ pc = "main_done"
    /\ printed # <<>>
    /\ printed[1] >= 2
    /\ Len(df_stacked2) >= 1
    /\ \E i \in 1..Len(LongPerBond) :
          /\ i \notin FirstOfPair
          /\ \A k \in 1..Len(df_stacked2) : df_stacked2[k].y # LongPerBond[i].y


\* C26: no step of a core stage function changes a table passed to it: the
\* caller's tables have the same rows, columns and values after the call as
\* before, whether the call returns or raises.
C26_Purity ==
    [][UNCHANGED <<bond_red_df, cds_df, bond_treas_df, red_c_df, bond_df, treas_df>>]_vars

C26_Witness ==
    /\ pc = "treas_returned"
    /\ treas_result # <<>>
    /\ \E i \in 1..Len(bond_df) :
          /\ bond_df[i]["maturity"].form = "text"
          /\ \E k \in 1..Len(treas_result) : treas_result[k]["cusip"] = bond_df[i]["cusip"]
    /\ \E i \in 1..Len(treas_df) : treas_df[i].tmatdt.form = "text"


\* The orders in which the groups of filtered_cds_df can be fitted, and the
\* curve mapping and flag left by fitting them in one of these orders.
FitOrders ==
    {order \in [1..Cardinality(GroupKeys(filtered_cds_df)) -> GroupKeys(filtered_cds_df)] :
        \A i, j \in DOMAIN order : order[i] = order[j] => i = j}

RECURSIVE FitInOrder(_, _)
FitInOrder(order, n) ==
    IF n = 0 THEN [splines |-> [k \in {} |-> {}], WARN |-> FALSE]
    ELSE FitStep(FitInOrder(order, n - 1), order[n], filtered_cds_df)

\* C27: a fit writes only the key of its own group into the curve mapping and
\* the warning flag is set but never cleared; the mapping and the flag at the
\* end of the loop are those of every order of fitting the groups; and after
\* the loop the mapping is not written: evaluation adds, removes and replaces
\* no entry.
C27_Step ==
    /\ pc = "cds_fit" =>
          /\ \A k \in DOMAIN cubic_splines :
                k \in DOMAIN cubic_splines' /\ cubic_splines'[k] = cubic_splines[k]
          /\ DOMAIN cubic_splines' \ DOMAIN cubic_splines \subseteq todo \ todo'
          /\ WARN => WARN'
    /\ (pc = "cds_fit" /\ pc' = "cds_eval") =>
          /\ \A order \in FitOrders :
                FitInOrder(order, Len(order)) = [splines |-> cubic_splines, WARN |-> WARN]
          /\ warnings' = IF WARN THEN 1 ELSE 0
    /\ pc \in {"cds_eval", "cds_evaluated"} => cubic_splines' = cubic_splines

C27_IndependentFits == [][C27_Step]_vars

C27_Witness ==
    /\ pc = "cds_returned"
    /\ Cardinality(GroupKeys(filtered_cds_df)) = 2
    /\ FitFails(GroupOf(filtered_cds_df, <<"R1", 1>>))
    /\ <<"R2", 1>> \in DOMAIN cubic_splines
    /\ WARN
    /\ par_df # <<>>


\* C28: the deduplicated mapping gives each issuer key one entity code, and the
\* linker returns each bond row at most once: its output never has more rows
\* than the bond table passed in.
C28_SingleValuedLink ==
    pc \in {"link_returned", "link2_returned"} =>
       /\ \A j, k \in 1..Len(red_mapping(red_c_df)) :
             red_mapping(red_c_df)[j].issuer_cusip = red_mapping(red_c_df)[k].issuer_cusip
                => red_mapping(red_c_df)[j].redcode = red_mapping(red_c_df)[k].redcode
       /\ Len(merged_df) <= Len(bond_treas_df.rows)


\* C29: in every row returned by merge_cds_bond.merge_red_code_into_bond_treas
\* the issuer_cusip is the first 6 characters of the row's cusip.
C29_IssuerKeyFromCusip ==
    pc = "link_returned" =>
       \A k \in 1..Len(merged_df) :
          IsFirst6(merged_df[k]["issuer_cusip"], merged_df[k]["cusip"])


\* C30: every y of the two files written by create_ftsfr_datasets.main is the
\* rfr value of a row of the per-rating (per-bond) table with that unique_id
\* and ds; the value of no other metric column is written as y.
C30_ValueIsImpliedRate ==
    /\ AggregatedFile \in DOMAIN files =>
          \A k \in 1..Len(files[AggregatedFile]) :
             \E i \in 1..Len(agg_df.rows) :
                /\ AsStr(agg_df.rows[i].c_rating) = files[AggregatedFile][k].unique_id
                /\ agg_df.rows[i].date = files[AggregatedFile][k].ds
                /\ agg_df.rows[i].rfr = files[AggregatedFile][k].y
    /\ NonAggregatedFile \in DOMAIN files =>
          \A k \in 1..Len(files[NonAggregatedFile]) :
             \E i \in 1..Len(non_agg_df.rows) :
                /\ non_agg_df.rows[i].cusip = files[NonAggregatedFile][k].unique_id
                /\ non_agg_df.rows[i].date = files[NonAggregatedFile][k].ds
                /\ non_agg_df.rows[i].rfr = files[NonAggregatedFile][k].y

====
